---------------------------- MODULE Spec2Model ----------------------------
(***************************************************************************)
(* Design Tokens Manager plugin: alias resolution (token-scanner.ts),      *)
(* collection detail (getCollectionData) and the export renderer           *)
(* (token-export.ts), over a snapshot of the document's variables and      *)
(* variable collections.                                                    *)
(***************************************************************************)
EXTENDS Integers, Sequences, FiniteSets, TLC

VARIABLES
    collectionMap,  \* collection id -> VariableCollection (id, name, modes)
    variableMap,    \* variable id -> Variable (id, name, resolvedType, ...)
    rpc,            \* resolveVariableValue: "idle" | "call" | "done"
    rvar,           \* ... its `variable` argument (an id of variableMap)
    rmode,          \* ... its `modeId` argument
    rcoll,          \* ... its `collection` argument (an id of collectionMap)
    visited,        \* ... its `visited` set of refKeys
    calls,          \* recursive calls made (line 399) in this resolution
    result,         \* value returned by the finished resolution
    hop,            \* the last alias hop taken (or NoHop)
    top,            \* the (variable, mode) pair of the top-level call
    gpc,            \* getCollectionData: "idle" | "loop" | "loaded" | "failed"
    gcoll,          \* ... its collectionId argument
    gvi,            \* ... index of `v` in collectionVars (outer loop)
    gmi,            \* ... index of `mode` in collection.modes (inner loop)
    valuesByMode,   \* ... the Tokens of `v` built so far
    isAlias,        \* ... the isAlias flag of `v` so far
    variablesDetail,\* ... the CollectionVariableDetail records pushed so far
    detail,         \* the CollectionDetail returned (or NoDetail)
    options,        \* generateExport: its ExportOptions argument
    output,         \* generateExport: what it returned (or NoOutput)
    requests,       \* the collection ids the UI has asked the detail of
    inbox,          \* get-collection-data messages figma.ui.onmessage has not
                    \* taken yet (their collectionId)
    outbox,         \* the messages the plugin has posted to the UI
    call,           \* a call of a token-utils or categorizer function: its
                    \* name and arguments (or NoCall)
    ret,            \* the values returned along that call, in order
    spc,            \* scanAllTokens: where the scan is
    scanned,        \* ... the paint styles its loop has gone through
    tokens,         \* ... the DesignTokens tree built so far
    store,          \* the TokenState of the token store (token-store.tsx)
    ui,             \* the state of the App component (ui.tsx)
    sync            \* syncTokensToFigma: its position, its result and the
                    \* document's variables

resolverVars == <<rpc, rvar, rmode, rcoll, visited, calls, result, hop, top>>
docVars == <<collectionMap, variableMap>>
scanVars == <<gpc, gcoll, gvi, gmi, valuesByMode, isAlias, variablesDetail, detail>>
exportVars == <<options, output>>
pluginVars == <<requests, inbox, outbox>>
utilVars == <<call, ret>>
treeVars == <<spc, scanned, tokens>>
viewVars == <<store, ui, sync>>
vars == <<collectionMap, variableMap, rpc, rvar, rmode, rcoll, visited, calls,
          result, hop, top, gpc, gcoll, gvi, gmi, valuesByMode, isAlias,
          variablesDetail, detail, options, output, requests, inbox, outbox,
          call, ret, spc, scanned, tokens, store, ui, sync>>

---------------------------------------------------------------------------
(* Bounds of the model *)

\* at most this many (variable, mode) slots of the document hold an alias
MaxAliases == 4
\* the call depth at which the engine gives up with a RangeError
MaxDepth == 8
\* the UI asks for the detail of a collection at most this many times
MaxRequests == 2
\* the paint styles of a document
MaxStyles == 3
\* requests the App sends to the plugin in one behaviour
MaxSent == 3

---------------------------------------------------------------------------
(* The document snapshot: what figma.variables.getLocalVariablesAsync and   *)
(* getLocalVariableCollectionsAsync return.                                 *)

CollectionIds == {"X", "Y"}
ModeIdsOf(c) == IF c = "X" THEN <<"x1", "x2">> ELSE <<"y1", "y2">>
\* the mode names of X and of Y, in declaration order: aligned, swapped,
\* disjoint, and a collection with two modes of one name
Layouts ==
    { << <<"Light", "Dark">>, <<"Light", "Dark">> >>,
      << <<"Light", "Dark">>, <<"Dark", "Light">> >>,
      << <<"Light", "Dark">>, <<"Day", "Night">> >>,
      << <<"Light", "Light">>, <<"Dark", "Light">> >> }

VarIds == {"A", "B", "C"}
\* the order in which getLocalVariablesAsync lists them
allVariables == <<"A", "B", "C">>
\* an id no local variable has (a deleted or remote variable)
GoneId == "Gone"
CollectionOf(v) == IF v = "C" THEN "Y" ELSE "X"
NameOf(v) ==
    CASE v = "A" -> "Bg/Hi Lo"
      [] v = "B" -> "Blue/500"
      [] OTHER   -> "text/sm"

ResolvedTypes == {"COLOR", "FLOAT", "STRING"}

\* JS values
Undefined == [t |-> "undefined"]
\* "Maximum call stack size exceeded", thrown instead of a value
RangeError == [t |-> "RangeError"]
Str(s) == [t |-> "string", s |-> s]
Num(n) == [t |-> "number", n |-> n]
VariableAlias(id) == [t |-> "VARIABLE_ALIAS", id |-> id]
\* an RGBA record; channels in units of 1/510, alpha in units of 1/1000
Rgba(r, g, b, a) == [t |-> "rgba", r |-> r, g |-> g, b |-> b, a |-> a]

IsAlias(value) == value.t = "VARIABLE_ALIAS"

Slots == {<<v, m>> : v \in VarIds, m \in {1, 2}}
SlotIndex(v, i) == (CASE v = "A" -> 0 [] v = "B" -> 2 [] OTHER -> 4) + i

\* the direct (non-alias) value a variable of type ty holds in its i-th mode
Primitive(ty, v, i) ==
    LET k == SlotIndex(v, i) IN
    CASE ty = "COLOR" ->
             Rgba(85 * k, 510 - 85 * k, 51 * k, IF k % 2 = 0 THEN 500 ELSE 1000)
      [] ty = "FLOAT" -> Num(4 * k)
      [] OTHER -> Str(CASE k % 3 = 0 -> "$sans"
                        [] k % 2 = 0 -> "Inter"
                        [] OTHER -> "700")

MkCollection(c, names) ==
    [id |-> c, name |-> c,
     modes |-> [i \in 1..2 |-> [modeId |-> ModeIdsOf(c)[i], name |-> names[i]]]]

MkVariable(v, ty, tg) ==
    [id |-> v, name |-> NameOf(v), resolvedType |-> ty,
     variableCollectionId |-> CollectionOf(v),
     valuesByMode |->
        [m \in {ModeIdsOf(CollectionOf(v))[i] : i \in 1..2} |->
            LET i == CHOOSE j \in 1..2 : ModeIdsOf(CollectionOf(v))[j] = m IN
            IF tg[<<v, i>>] = "none" THEN Primitive(ty, v, i)
            ELSE VariableAlias(tg[<<v, i>>])]]

AliasTargets == VarIds \cup {GoneId, "none"}

\* the alias values of a document: the variable each slot points at, or "none"
AliasGraphs(maxAliases) ==
    {tg \in [Slots -> AliasTargets] :
        Cardinality({s \in Slots : tg[s] # "none"}) <= maxAliases}

\* a document with one of the given layouts, variables of one of the given
\* types and one of the given sets of alias values
DocInit(layouts, types, graphs) ==
    /\ \E l \in layouts :
          collectionMap = [c \in CollectionIds |->
                              MkCollection(c, IF c = "X" THEN l[1] ELSE l[2])]
    /\ \E ty \in types, tg \in graphs :
          variableMap = [v \in VarIds |-> MkVariable(v, ty, tg)]

ModeIdSet(c) == {collectionMap[c].modes[i].modeId : i \in DOMAIN collectionMap[c].modes}

---------------------------------------------------------------------------
(* Strings and numbers as JavaScript prints them *)

Digits == "0123456789abcdef"
Digit(d) == SubSeq(Digits, d + 1, d + 1)

\* the number NaN, which no channel, alpha or parsed number otherwise is
NaN == -1

RECURSIVE DecDigits(_)
DecDigits(n) == IF n < 10 THEN Digit(n) ELSE DecDigits(n \div 10) \o Digit(n % 10)

\* String(n) of a non-negative integer or NaN
Dec(n) == IF n = NaN THEN "NaN" ELSE DecDigits(n)

RECURSIVE ToString16(_)
\* n.toString(16) of a non-negative integer
ToString16(n) ==
    IF n < 16 THEN Digit(n) ELSE ToString16(n \div 16) \o Digit(n % 16)

\* Math.round(n * 255) of a channel held in units of 1/510
Round255(ch) == IF ch = NaN THEN NaN ELSE (ch + 1) \div 2

\* toHex without the padding of a one-digit result
toHex_NoPad(ch) == IF ch = NaN THEN "NaN" ELSE ToString16(Round255(ch))

\* (Math.round(n * 255)).toString(16), padded to two digits
toHex(ch) ==
    IF ch = NaN THEN "NaN"
    ELSE IF Round255(ch) < 16 THEN "0" \o Digit(Round255(ch))
    ELSE ToString16(Round255(ch))

\* a.toFixed(3) of an alpha held in units of 1/1000
toFixed3(a) ==
    Dec(a \div 1000) \o "." \o Digit((a \div 100) % 10) \o Digit((a \div 10) % 10)
        \o Digit(a % 10)

rgbaToHex(r, g, b, a) ==
    IF a # NaN /\ a < 1000
    THEN "rgba(" \o Dec(Round255(r)) \o ", " \o Dec(Round255(g)) \o ", "
            \o Dec(Round255(b)) \o ", " \o toFixed3(a) \o ")"
    ELSE "#" \o toHex(r) \o toHex(g) \o toHex(b)

---------------------------------------------------------------------------
(* resolveVariableValue (token-scanner.ts) *)

refKey(v, m) == <<v, m>>

\* the guard of lines 369-371 left out
VisitedHas_NoGuard(vis, v, m) == FALSE
\* visited.has(refKey)
VisitedHas(vis, v, m) == refKey(v, m) \in vis
\* line 372 left out
VisitedAdd_Forgotten(vis, v, m) == vis
\* visited.add(refKey)
VisitedAdd(vis, v, m) == vis \cup {refKey(v, m)}

\* collection.modes.find(m => m.modeId === modeId)?.name
CurrentModeName(c, m) ==
    LET ms == collectionMap[c].modes
        hit == {i \in DOMAIN ms : ms[i].modeId = m}
    IN  IF hit = {} THEN Undefined
        ELSE Str(ms[CHOOSE i \in hit : \A j \in hit : i <= j].name)

\* the target's mode at the current mode's position instead of its name
TargetModeId_ByPosition(c, m, tc) ==
    LET ms == collectionMap[c].modes
        tms == collectionMap[tc].modes
        at == {i \in DOMAIN ms : ms[i].modeId = m /\ i \in DOMAIN tms}
    IN  IF at = {} THEN tms[1].modeId ELSE tms[CHOOSE i \in at : TRUE].modeId
\* the fallback of line 396 taken always
TargetModeId_FirstMode(c, m, tc) == collectionMap[tc].modes[1].modeId
\* lines 388-396: match by name first, then fall back to the first mode
TargetModeId(c, m, tc) ==
    LET name == CurrentModeName(c, m)
        tms == collectionMap[tc].modes
        match == {i \in DOMAIN tms : name # Undefined /\ tms[i].name = name.s}
    IN  IF match = {} THEN tms[1].modeId
        ELSE tms[CHOOSE i \in match : \A j \in match : i <= j].modeId

\* the color branch of lines 403-406 left out
TerminalValue_NoColor(v, rawValue) == rawValue
\* lines 402-409: what the function returns for a value that is not an alias
TerminalValue(v, rawValue) ==
    IF variableMap[v].resolvedType = "COLOR" /\ rawValue.t = "rgba"
    THEN Str(rgbaToHex(rawValue.r, rawValue.g, rawValue.b, rawValue.a))
    ELSE rawValue

\* One invocation of the function body: either it returns a value or it
\* makes the recursive call of line 399.
ResolveBody(v, m, c, vis) ==
    IF VisitedHas(vis, v, m)
    THEN [kind |-> "return", value |-> Undefined, visited |-> vis]
    ELSE
      LET vis2 == VisitedAdd(vis, v, m)
          rawValue == IF m \in DOMAIN variableMap[v].valuesByMode
                      THEN variableMap[v].valuesByMode[m] ELSE Undefined
      IN
      IF IsAlias(rawValue)
      THEN IF rawValue.id \notin DOMAIN variableMap
           THEN [kind |-> "return", value |-> Undefined, visited |-> vis2]
           ELSE LET tc == variableMap[rawValue.id].variableCollectionId IN
                IF tc \notin DOMAIN collectionMap
                THEN [kind |-> "return", value |-> Undefined, visited |-> vis2]
                ELSE [kind |-> "recurse", variable |-> rawValue.id,
                      modeId |-> TargetModeId(c, m, tc), collection |-> tc,
                      visited |-> vis2]
      ELSE [kind |-> "return", value |-> TerminalValue(v, rawValue),
            visited |-> vis2]

NoHop == [from |-> <<"", "">>, to |-> <<"", "">>]
NoDetail == [collectionId |-> "", name |-> "", modes |-> <<>>, variables |-> <<>>]
NoOptions == [format |-> "", modes |-> <<>>, aliasMode |-> "", colorFormat |-> "",
              unitFormat |-> "", baseFontSize |-> 0, unitPerVariable |-> <<>>]
NoOutput == [t |-> "none"]

ResolverIdle ==
    /\ rpc = "idle"
    /\ rvar = ""
    /\ rmode = ""
    /\ rcoll = ""
    /\ visited = {}
    /\ calls = 0
    /\ result = Undefined
    /\ hop = NoHop
    /\ top = <<"", "">>

\* collectionVars = allVariables.filter(...) (line 279)
collectionVars(cid) ==
    SelectSeq(allVariables, LAMBDA v : variableMap[v].variableCollectionId = cid)

\* a set reused from the previous resolution instead of a new one
NewSet_Reused(previous) == previous
\* `new Set()` (line 303)
NewSet(previous) == {}

\* an array that outlives the call instead of line 280's fresh one
NewArray_Reused(previous) == previous

\* `[]` (line 280)
NewArray(previous) == <<>>

\* getCollectionData, lines 267-280: look the collection up, or throw
GetCollectionData(cid) ==
    /\ gpc \in {"idle", "loaded", "failed"}
    /\ rpc = "idle"
    /\ gcoll' = cid
    /\ IF cid \notin DOMAIN collectionMap
       THEN /\ gpc' = "failed"
            /\ UNCHANGED <<gvi, gmi>>
       ELSE /\ gpc' = "loop"
            /\ gvi' = 1
            /\ gmi' = 1
    /\ valuesByMode' = <<>>
    /\ isAlias' = FALSE
    /\ variablesDetail' = NewArray(variablesDetail)
    /\ detail' = NoDetail
    \* the UI has cleared its variables, and with them the output preview
    /\ options' = NoOptions
    /\ output' = NoOutput
    /\ UNCHANGED <<docVars, resolverVars>>

\* the top-level call of lines 297-304, for the loops' current v and mode
ResolveStart ==
    /\ gpc = "loop"
    /\ rpc = "idle"
    /\ gvi <= Len(collectionVars(gcoll))
    /\ LET v == collectionVars(gcoll)[gvi]
           m == collectionMap[gcoll].modes[gmi].modeId
       IN  /\ rvar' = v
           /\ rmode' = m
           /\ top' = <<v, m>>
    /\ rpc' = "call"
    /\ rcoll' = gcoll
    /\ visited' = NewSet(visited)
    /\ calls' = 0
    /\ result' = Undefined
    /\ hop' = NoHop
    /\ UNCHANGED <<docVars, scanVars, exportVars>>

\* an invocation that ends in the recursive call of line 399
ResolveRecurse ==
    /\ rpc = "call"
    /\ LET b == ResolveBody(rvar, rmode, rcoll, visited) IN
       /\ b.kind = "recurse"
       /\ visited' = b.visited
       /\ IF calls < MaxDepth
          THEN /\ rvar' = b.variable
               /\ rmode' = b.modeId
               /\ rcoll' = b.collection
               /\ calls' = calls + 1
               /\ hop' = [from |-> <<rcoll, rmode>>,
                          to |-> <<b.collection, b.modeId>>]
               /\ UNCHANGED <<rpc, result>>
          ELSE /\ rpc' = "done"
               /\ result' = RangeError
               /\ UNCHANGED <<rvar, rmode, rcoll, calls, hop>>
    /\ UNCHANGED <<top, docVars, scanVars, exportVars>>

\* an invocation that returns (cycle, broken link, or a terminal value)
ResolveReturn ==
    /\ rpc = "call"
    /\ LET b == ResolveBody(rvar, rmode, rcoll, visited) IN
       /\ b.kind = "return"
       /\ result' = b.value
       /\ visited' = b.visited
    /\ rpc' = "done"
    /\ UNCHANGED <<rvar, rmode, rcoll, calls, hop, top, docVars, scanVars,
                   exportVars>>

---------------------------------------------------------------------------
(* getCollectionData (token-scanner.ts), the rest of its loops *)

\* lines 284-287
TokenTypeOf(resolvedType) ==
    CASE resolvedType = "COLOR" -> "color"
      [] resolvedType = "FLOAT" -> "number"
      [] resolvedType = "STRING" -> "typography"
      [] OTHER -> "number"

\* String(value)
JsString(value) ==
    CASE value.t = "string" -> value.s
      [] value.t = "number" -> Dec(value.n)
      [] value.t = "undefined" -> "undefined"
      [] OTHER -> "[object Object]"

\* a Token stored without the resolver's answer: the document's own value
\* is kept as resolvedValue
MakeToken_Unresolved(v, value, resolvedValue) ==
    [value |-> Str(JsString(value)),
     resolvedValue |-> value,
     type |-> TokenTypeOf(variableMap[v].resolvedType),
     description |-> Undefined]

\* lines 307-335: the Token of v at a mode, given the resolver's answer
MakeToken(v, value, resolvedValue) ==
    LET type == TokenTypeOf(variableMap[v].resolvedType) IN
    IF IsAlias(value)
    THEN [value |-> Str("{" \o (IF value.id \in DOMAIN variableMap
                                 THEN variableMap[value.id].name
                                 ELSE value.id) \o "}"),
          resolvedValue |-> resolvedValue,
          type |-> type,
          description |-> Str("Alias")]
    ELSE [value |-> IF variableMap[v].resolvedType = "COLOR" /\ value.t = "rgba"
                    THEN Str(rgbaToHex(value.r, value.g, value.b, value.a))
                    ELSE Str(JsString(value)),
          resolvedValue |-> resolvedValue,
          type |-> type,
          description |-> Undefined]

\* the flag set from the current mode alone
AliasFlag_LastMode(previous, value) == IsAlias(value)

\* lines 289 and 307-308: isAlias, false before the first mode and raised by
\* every mode whose direct value is an alias
AliasFlag(previous, value) == previous \/ IsAlias(value)

\* f with key k set to x
Put(f, k, x) == [y \in DOMAIN f \cup {k} |-> IF y = k THEN x ELSE f[y]]

\* lines 306-352: store the Token, move both loops on, and return the
\* detail after the last variable
StoreToken ==
    /\ gpc = "loop"
    /\ rpc = "done"
    /\ LET v == collectionVars(gcoll)[gvi]
           modes == collectionMap[gcoll].modes
           m == modes[gmi].modeId
           value == variableMap[v].valuesByMode[m]
           vbm == Put(valuesByMode, m, MakeToken(v, value, result))
           alias == AliasFlag(isAlias, value)
           pushed == Append(variablesDetail,
                            [id |-> v, name |-> variableMap[v].name,
                             type |-> TokenTypeOf(variableMap[v].resolvedType),
                             valuesByMode |-> vbm, isAlias |-> alias])
       IN  IF gmi < Len(modes)
           THEN /\ gmi' = gmi + 1
                /\ valuesByMode' = vbm
                /\ isAlias' = alias
                /\ UNCHANGED <<gpc, gvi, variablesDetail, detail>>
           ELSE /\ gmi' = 1
                /\ gvi' = gvi + 1
                /\ valuesByMode' = <<>>
                /\ isAlias' = FALSE
                /\ variablesDetail' = pushed
                /\ IF gvi < Len(collectionVars(gcoll))
                   THEN UNCHANGED <<gpc, detail>>
                   ELSE /\ gpc' = "loaded"
                        /\ detail' = [collectionId |-> gcoll,
                                       name |-> collectionMap[gcoll].name,
                                       modes |-> modes,
                                       variables |-> pushed]
    \* the last Set outlives its resolution until the function returns
    /\ visited' = IF \/ gmi < Len(collectionMap[gcoll].modes)
                     \/ gvi < Len(collectionVars(gcoll))
                  THEN visited ELSE {}
    \* the resolver's frame is gone
    /\ rpc' = "idle"
    /\ rvar' = ""
    /\ rmode' = ""
    /\ rcoll' = ""
    /\ calls' = 0
    /\ result' = Undefined
    /\ hop' = NoHop
    /\ top' = <<"", "">>
    /\ UNCHANGED <<gcoll, docVars, exportVars>>

ScanIdle ==
    /\ gpc = "idle"
    /\ gcoll = ""
    /\ gvi = 0
    /\ gmi = 0
    /\ valuesByMode = <<>>
    /\ isAlias = FALSE
    /\ variablesDetail = <<>>
    /\ detail = NoDetail

\* an id no collection has
GoneCollection == "Z"

ExportIdle ==
    /\ options = NoOptions
    /\ output = NoOutput

PluginIdle ==
    /\ requests = <<>>
    /\ inbox = <<>>
    /\ outbox = <<>>

\* no token-utils function called
UtilIdle ==
    /\ call = [fn |-> "none", args |-> <<>>]
    /\ ret = <<>>

\* JavaScript's null, where a field holds null or an object
Null == [t |-> "null"]

\* token-store.tsx, lines 33-41 (activeCollectionId is null or a string: the
\* string "null" stands for null, no collection of the model has that id)
initialState ==
    [activeCollectionId |-> "null", activeModeId |-> "ALL", allCollections |-> <<>>,
     collection |-> Null, localEdits |-> <<>>, showAliases |-> TRUE,
     baseFontSize |-> 16]

\* ui.tsx, lines 752-779: the App component as mounted
initialApp ==
    [loading |-> FALSE, error |-> "null", collections |-> <<>>, variables |-> <<>>,
     modes |-> <<>>, selectedCollectionId |-> "", selectedModeId |-> "all"]

\* the store and the App as mounted, syncTokensToFigma not called
ViewIdle ==
    /\ store = initialState
    /\ ui = initialApp
    /\ sync = [pc |-> "idle", todo |-> {}, synced |-> {},
               result |-> [created |-> 0, updated |-> 0, errors |-> <<>>],
               vars |-> <<>>]

\* scanAllTokens not called
TreeIdle ==
    /\ spc = "idle"
    /\ scanned = <<>>
    /\ tokens = [t |-> "none"]

\* getCollectionData called directly, with no message exchanged
Init ==
    /\ DocInit(Layouts, {"COLOR", "FLOAT"}, AliasGraphs(MaxAliases))
    /\ ResolverIdle
    /\ ScanIdle
    /\ ExportIdle
    /\ PluginIdle
    /\ UtilIdle
    /\ TreeIdle
    /\ ViewIdle

Next ==
    /\ \/ \E cid \in CollectionIds \cup {GoneCollection} : GetCollectionData(cid)
       \/ ResolveStart
       \/ ResolveRecurse
       \/ ResolveReturn
       \/ StoreToken
    /\ UNCHANGED <<pluginVars, utilVars, treeVars, viewVars>>

Spec == Init /\ [][Next]_vars

---------------------------------------------------------------------------
(* String helpers: what the JavaScript string methods used below do *)

StartsWith(s, p) == Len(s) >= Len(p) /\ SubSeq(s, 1, Len(p)) = p
EndsWith(s, p) == Len(s) >= Len(p) /\ SubSeq(s, Len(s) - Len(p) + 1, Len(s)) = p

UpperCase == "ABCDEFGHIJKLMNOPQRSTUVWXYZ"
LowerCase == "abcdefghijklmnopqrstuvwxyz"

\* position of character ch in alphabet, 0 when absent
IndexIn(ch, alphabet) ==
    LET hit == {i \in 1..Len(alphabet) : SubSeq(alphabet, i, i) = ch}
    IN  IF hit = {} THEN 0 ELSE CHOOSE i \in hit : TRUE

RECURSIVE toLowerCase(_)
toLowerCase(s) ==
    IF s = "" THEN ""
    ELSE LET i == IndexIn(Head(s), UpperCase)
         IN  (IF i = 0 THEN Head(s) ELSE SubSeq(LowerCase, i, i))
                 \o toLowerCase(Tail(s))

RECURSIVE ReplaceAll(_, _, _)
\* s.replace(/<from>/g, to) for a one-character pattern
ReplaceAll(s, from, to) ==
    IF s = "" THEN ""
    ELSE (IF Head(s) = from THEN to ELSE Head(s)) \o ReplaceAll(Tail(s), from, to)

IsSpace(ch) == ch \in {" ", "\t", "\n"}

RECURSIVE ReplaceSpaceRuns(_, _, _)
\* s.replace(/\s+/g, to); inRun: the previous character was whitespace
ReplaceSpaceRuns(s, to, inRun) ==
    IF s = "" THEN ""
    ELSE IF IsSpace(Head(s))
         THEN (IF inRun THEN "" ELSE to) \o ReplaceSpaceRuns(Tail(s), to, TRUE)
         ELSE Head(s) \o ReplaceSpaceRuns(Tail(s), to, FALSE)

RECURSIVE Split(_, _)
\* s.split(sep) for a one-character separator
Split(s, sep) ==
    LET at == {i \in 1..Len(s) : SubSeq(s, i, i) = sep} IN
    IF at = {} THEN <<s>>
    ELSE LET i == CHOOSE k \in at : \A j \in at : k <= j
         IN  <<SubSeq(s, 1, i - 1)>> \o Split(SubSeq(s, i + 1, Len(s)), sep)

IsDigit(ch) == IndexIn(ch, "0123456789") > 0

\* the value of ch as a digit, in either letter case; -1 when it is none
DigitValue(ch) == IndexIn(toLowerCase(ch), Digits) - 1

RECURSIVE ParseDigits(_, _, _)
\* acc extended by the leading digits of s
ParseDigits(s, base, acc) ==
    IF s = "" \/ DigitValue(Head(s)) \notin 0..(base - 1) THEN acc
    ELSE ParseDigits(Tail(s), base, base * acc + DigitValue(Head(s)))

\* parseInt(s, base) of a string without sign, blanks or 0x prefix: the
\* value of its leading digits, NaN when it has none
ParseInt(s, base) ==
    IF s = "" \/ DigitValue(Head(s)) \notin 0..(base - 1) THEN NaN
    ELSE ParseDigits(s, base, 0)

\* Number(s) of a string of decimal digits; Number("") is 0
ToNumber(s) == IF s = "" THEN 0 ELSE ParseInt(s, 10)

\* k * n, NaN for NaN
Times(k, n) == IF n = NaN THEN NaN ELSE k * n

\* !isNaN(Number(s)), for strings of plain characters: all digits (Number("")
\* is 0)
IsNumericString(s) == \A i \in 1..Len(s) : IsDigit(SubSeq(s, i, i))

RECURSIVE StripZeros(_)
StripZeros(s) ==
    IF s # "" /\ SubSeq(s, Len(s), Len(s)) = "0"
    THEN StripZeros(SubSeq(s, 1, Len(s) - 1)) ELSE s

RECURSIVE Pad(_, _)
\* n in decimal with leading zeros to k digits
Pad(n, k) == IF k = 0 THEN "" ELSE Pad(n \div 10, k - 1) \o Digit(n % 10)

\* String(q / 10^k) of a number held as the integer q: the shortest decimal
ShortDecimal(q, k) ==
    LET scale == 10 ^ k IN
    IF q = NaN THEN "NaN"
    ELSE IF q % scale = 0 THEN Dec(q \div scale)
    ELSE Dec(q \div scale) \o "." \o StripZeros(Pad(q % scale, k))

---------------------------------------------------------------------------
(* formatColor, formatUnit, hexToRgba (token-utils) *)

\* s.replace(from, to) for a one-character string pattern: the first
\* occurrence only
ReplaceFirst(s, from, to) ==
    LET at == {i \in 1..Len(s) : SubSeq(s, i, i) = from}
        first == IF at = {} THEN 0 ELSE CHOOSE k \in at : \A j \in at : k <= j
    IN  IF first = 0 THEN s
        ELSE SubSeq(s, 1, first - 1) \o to \o SubSeq(s, first + 1, Len(s))

\* hexToRgba: channels in units of 1/510, alpha in units of 1/1000
hexToRgba(value) ==
    LET hex == ReplaceFirst(value, "#", "")
        byte(i) == ParseInt(SubSeq(hex, i, i + 1), 16)
    IN  IF Len(hex) = 6
        THEN [ok |-> TRUE, r |-> Times(2, byte(1)), g |-> Times(2, byte(3)),
              b |-> Times(2, byte(5)), a |-> 1000]
        ELSE IF Len(hex) = 8
        THEN [ok |-> TRUE, r |-> Times(2, byte(1)), g |-> Times(2, byte(3)),
              b |-> Times(2, byte(5)),
              a |-> IF byte(7) = NaN THEN NaN ELSE (2000 * byte(7) + 255) \div 510]
        ELSE [ok |-> FALSE, r |-> 0, g |-> 0, b |-> 0, a |-> 1000]   \* throws

RECURSIVE NumberRuns(_, _)
\* value.match(/[\d.]+/g); run: the run of digits and dots being read
NumberRuns(s, run) ==
    IF s = "" THEN (IF run = "" THEN <<>> ELSE <<run>>)
    ELSE IF IsDigit(Head(s)) \/ Head(s) = "."
         THEN NumberRuns(Tail(s), run \o Head(s))
         ELSE (IF run = "" THEN <<>> ELSE <<run>>) \o NumberRuns(Tail(s), "")

\* parseFloat of digits with an optional fraction, in units of 1/1000
ParseMilli(s) ==
    LET parts == Split(s, ".")
        frac == IF Len(parts) > 1 THEN SubSeq(parts[2] \o "000", 1, 3) ELSE "000"
    IN  IF parts[1] = "" /\ (Len(parts) = 1 \/ parts[2] = "") THEN NaN
        ELSE IF parts[1] = "" THEN ParseInt(frac, 10)
        ELSE 1000 * ParseInt(parts[1], 10) + ParseInt(frac, 10)

\* the channel (in units of 1/510) that parseFloat(run) / 255 is, to the
\* precision Math.round(n * 255) reads it with
ParseChannel(run) ==
    IF ParseMilli(run) = NaN THEN NaN ELSE 2 * ((ParseMilli(run) + 500) \div 1000)

\* lines 156-176: r, g, b, a of a hex or rgb()/rgba() string
ParseColor(value) ==
    IF StartsWith(value, "#") THEN hexToRgba(value)
    ELSE IF StartsWith(value, "rgb")
    THEN LET match == NumberRuns(value, "") IN
         IF Len(match) >= 3
         THEN [ok |-> TRUE,
               r |-> ParseChannel(match[1]),
               g |-> ParseChannel(match[2]),
               b |-> ParseChannel(match[3]),
               a |-> IF Len(match) >= 4 THEN ParseMilli(match[4]) ELSE 1000]
         ELSE [ok |-> FALSE, r |-> 0, g |-> 0, b |-> 0, a |-> 1000]
    ELSE [ok |-> FALSE, r |-> 0, g |-> 0, b |-> 0, a |-> 1000]

\* formatColor; the hsl, hsla and oklch branches (real arithmetic) are not
\* modelled and those formats are never selected
formatColor(value, format) ==
    IF value = "" THEN value
    ELSE IF StartsWith(value, "{") THEN value
    ELSE LET c == ParseColor(value)
             rgb == Dec(Round255(c.r)) \o ", " \o Dec(Round255(c.g)) \o ", "
                       \o Dec(Round255(c.b))
         IN  IF ~c.ok THEN value
             ELSE CASE format = "hex" -> rgbaToHex(c.r, c.g, c.b, 1000)
                    [] format = "rgb" -> "rgb(" \o rgb \o ")"
                    [] format = "rgba" ->
                         "rgba(" \o rgb \o ", " \o ShortDecimal(c.a, 3) \o ")"
                    [] format \notin {"hex", "rgb", "rgba", "hsl", "hsla", "oklch"} ->
                         value

\* formatUnit, for a non-negative integer value or NaN
formatUnit(value, unit, baseFontSize) ==
    LET scaled == ShortDecimal((20000 * value + baseFontSize) \div (2 * baseFontSize), 4)
    IN  CASE value = NaN -> "NaN"
          [] value # NaN /\ unit = "px" -> Dec(value) \o "px"
          [] value # NaN /\ unit = "curr" -> Dec(value)
          [] value # NaN /\ unit = "rem" -> scaled \o "rem"
          [] value # NaN /\ unit = "em" -> scaled \o "em"
          [] OTHER -> Dec(value) \o unit

---------------------------------------------------------------------------
(* determineCategory, parseStyleName, camelCase (token-scanner.ts) *)

PRIMITIVE_KEYWORDS ==
    <<"primitive", "palette", "core", "scale", "base", "ref", "reference">>
SEMANTIC_KEYWORDS ==
    <<"semantic", "system", "usage", "alias", "light", "dark", "mode">>
\* line 160
SEMANTIC_PREFIXES ==
    <<"text", "bg", "background", "surface", "border", "fg", "foreground">>

\* s.includes(sub)
Includes(s, sub) ==
    \E i \in 1..(Len(s) - Len(sub) + 1) : SubSeq(s, i, i + Len(sub) - 1) = sub

\* s.trim(): from the first to the last character that is no whitespace
trim(s) ==
    LET ink == {i \in 1..Len(s) : ~IsSpace(SubSeq(s, i, i))} IN
    IF ink = {} THEN ""
    ELSE SubSeq(s, CHOOSE i \in ink : \A j \in ink : i <= j,
                   CHOOSE i \in ink : \A j \in ink : i >= j)

\* /\d{2,3}$/.test(s): a run of two or three digits ends s
EndsInDigits(s) ==
    \E n \in {2, 3} :
        /\ Len(s) >= n
        /\ \A i \in (Len(s) - n + 1)..Len(s) : IsDigit(SubSeq(s, i, i))

\* determineCategory with the semantic keywords tried before the primitive ones
determineCategory_SemanticFirst(name, collectionName) ==
    LET fullString == toLowerCase(collectionName \o "/" \o name) IN
    IF \E k \in DOMAIN SEMANTIC_KEYWORDS : Includes(fullString, SEMANTIC_KEYWORDS[k])
    THEN "semantic"
    ELSE IF \E k \in DOMAIN PRIMITIVE_KEYWORDS :
                Includes(fullString, PRIMITIVE_KEYWORDS[k])
    THEN "primitives"
    ELSE IF \E k \in DOMAIN SEMANTIC_PREFIXES :
                StartsWith(toLowerCase(name), SEMANTIC_PREFIXES[k])
    THEN "semantic"
    ELSE IF EndsInDigits(trim(name)) THEN "primitives"
    ELSE "uncategorized"

determineCategory(name, collectionName) ==
    LET fullString == toLowerCase(collectionName \o "/" \o name) IN
    IF \E k \in DOMAIN PRIMITIVE_KEYWORDS : Includes(fullString, PRIMITIVE_KEYWORDS[k])
    THEN "primitives"
    ELSE IF \E k \in DOMAIN SEMANTIC_KEYWORDS :
                Includes(fullString, SEMANTIC_KEYWORDS[k])
    THEN "semantic"
    ELSE IF EndsInDigits(trim(name)) THEN "primitives"
    ELSE IF \E k \in DOMAIN SEMANTIC_PREFIXES :
                StartsWith(toLowerCase(name), SEMANTIC_PREFIXES[k])
    THEN "semantic"
    ELSE "uncategorized"

RECURSIVE camelCaseFrom(_, _)
\* camelCase from the i-th character on: a character matched by
\* /(?:^\w|[A-Z]|\b\w)/g is put in lower case at index 0 and in upper case
\* elsewhere, and /\s+/g is removed
camelCaseFrom(str, i) ==
    IF i > Len(str) THEN ""
    ELSE LET IsWordChar(c) ==        \* \w
                 \/ IndexIn(c, LowerCase) > 0
                 \/ IndexIn(c, UpperCase) > 0
                 \/ IsDigit(c)
                 \/ c = "_"
             ch == SubSeq(str, i, i)
             matched == \/ IndexIn(ch, UpperCase) > 0
                        \/ /\ IsWordChar(ch)
                           /\ (i = 1 \/ ~IsWordChar(SubSeq(str, i - 1, i - 1)))
             lower == IndexIn(ch, LowerCase)
         IN  (CASE IsSpace(ch) -> ""
                [] ~IsSpace(ch) /\ matched /\ i = 1 -> toLowerCase(ch)
                [] ~IsSpace(ch) /\ matched /\ i > 1 /\ lower > 0 ->
                       SubSeq(UpperCase, lower, lower)
                [] OTHER -> ch)
                 \o camelCaseFrom(str, i + 1)

camelCase(str) == camelCaseFrom(str, 1)

RECURSIVE SplitDelimiters(_, _)
\* name.split(/[\/\.\-]+/); part: the part being read. A run of delimiters
\* at either end leaves an empty part there
SplitDelimiters(s, part) ==
    IF s = "" THEN <<part>>
    ELSE IF Head(s) \in {"/", ".", "-"}
         THEN IF Len(s) > 1 /\ SubSeq(s, 2, 2) \in {"/", ".", "-"}
              THEN SplitDelimiters(Tail(s), part)
              ELSE <<part>> \o SplitDelimiters(Tail(s), "")
         ELSE SplitDelimiters(Tail(s), part \o Head(s))

parseStyleName(name) ==
    LET parts == SplitDelimiters(name, "")
        trimmed == [i \in DOMAIN parts |-> trim(parts[i])]
        kept == SelectSeq(trimmed, LAMBDA q : Len(q) > 0)
    IN  [i \in DOMAIN kept |-> camelCase(kept[i])]

---------------------------------------------------------------------------
(* The export renderer (token-export.ts) *)

normalizeDashName(name) ==
    ReplaceSpaceRuns(ReplaceAll(toLowerCase(name), "/", "-"), "-", FALSE)

normalizeDotName(name) ==
    ReplaceSpaceRuns(ReplaceAll(toLowerCase(name), "/", "."), "-", FALSE)

\* the object { $ref: name }
Ref(name) == [t |-> "ref", ref |-> name]
\* a plain object with the given properties
Obj(props) == [t |-> "object", props |-> props]

NumericTypes == {"number", "spacing", "borderRadius", "typography"}

\* lines 55-71: the reference an alias pointer is rendered as
AliasReference(rawValue, format) ==
    LET rawName == SubSeq(rawValue, 2, Len(rawValue) - 1) IN
    CASE format = "css" -> Str("var(--" \o normalizeDashName(rawName) \o ")")
      [] format = "scss" -> Str("$" \o normalizeDashName(rawName))
      [] format = "json" -> Str("{" \o normalizeDotName(rawName) \o "}")
      [] format = "dtcg" -> Ref(normalizeDotName(rawName))
      [] OTHER -> Str(rawValue)

\* lines 45-53: the value that is rendered
RawValue(modeVal, opts) ==
    IF opts.aliasMode = "resolved" /\ modeVal.resolvedValue # Undefined
    THEN modeVal.resolvedValue
    ELSE modeVal.value

\* line 56 without its aliasMode test
IsAliasToRender_AnyMode(rawValue, opts) ==
    /\ rawValue.t = "string"
    /\ StartsWith(rawValue.s, "{")
    /\ EndsWith(rawValue.s, "}")

\* line 56 never taken
IsAliasToRender_Never(rawValue, opts) == FALSE

\* line 56: the condition under which the value is rendered as a reference
IsAliasToRender(rawValue, opts) ==
    /\ opts.aliasMode # "resolved"
    /\ rawValue.t = "string"
    /\ StartsWith(rawValue.s, "{")
    /\ EndsWith(rawValue.s, "}")

\* lines 41-43: the Token of the mode, when there is one
HasToken(v, modeId) == modeId \in DOMAIN v.valuesByMode

\* line 43: what a mode without a Token is rendered as
NoTokenValue_Undefined == Str("undefined")

NoTokenValue == Str("null")

processValue(v, modeId, opts) ==
    IF ~HasToken(v, modeId) THEN NoTokenValue
    ELSE
      LET rawValue == RawValue(v.valuesByMode[modeId], opts) IN
      IF IsAliasToRender(rawValue, opts)
      THEN AliasReference(rawValue.s, opts.format)
      ELSE IF v.type = "color"
      THEN Str(formatColor(JsString(rawValue), opts.colorFormat))
      ELSE IF /\ v.type \in NumericTypes
              /\ \/ rawValue.t = "number"
                 \/ IsNumericString(JsString(rawValue))
      THEN LET unit == IF v.id \in DOMAIN opts.unitPerVariable
                       THEN opts.unitPerVariable[v.id] ELSE opts.unitFormat
               n == IF rawValue.t = "number" THEN rawValue.n
                    ELSE ToNumber(JsString(rawValue))
           IN  Str(formatUnit(n, unit, opts.baseFontSize))
      ELSE Str(JsString(rawValue))

\* `${val}`
Template(val) == IF val.t = "string" THEN val.s ELSE "[object Object]"

RECURSIVE JoinSections(_)
\* sections.join('\n\n'), as the lines of the text
JoinSections(sections) ==
    IF Len(sections) = 0 THEN <<"">>
    ELSE IF Len(sections) = 1 THEN sections[1]
    ELSE sections[1] \o <<"">> \o JoinSections(Tail(sections))

CssSection(variables, mode, opts) ==
    <<"/* Mode: " \o mode.name \o " */", ":root {">>
      \o [i \in DOMAIN variables |->
            "  --" \o normalizeDashName(variables[i].name) \o ": "
               \o Template(processValue(variables[i], mode.modeId, opts)) \o ";"]
      \o <<"}">>

\* lines 91-100 run for the first mode only
generateCSS_FirstModeOnly(variables, opts) ==
    [t |-> "text", lines |-> CssSection(variables, opts.modes[1], opts)]

generateCSS(variables, opts) ==
    [t |-> "text",
     lines |-> JoinSections([k \in DOMAIN opts.modes |->
                                CssSection(variables, opts.modes[k], opts)])]

ScssSection(variables, mode, opts) ==
    <<"// Mode: " \o mode.name>>
      \o [i \in DOMAIN variables |->
            "$" \o normalizeDashName(variables[i].name) \o ": "
               \o Template(processValue(variables[i], mode.modeId, opts)) \o ";"]

generateSCSS(variables, opts) ==
    [t |-> "text",
     lines |-> JoinSections([k \in DOMAIN opts.modes |->
                                ScssSection(variables, opts.modes[k], opts)])]

\* mode.name.toLowerCase().replace(/\s+/g, '-')
ModeKey(name) == ReplaceSpaceRuns(toLowerCase(name), "-", FALSE)

RECURSIVE JsonModeObj(_, _, _, _)
\* lines 124-128: modeObj after the first n variables
JsonModeObj(variables, n, mode, opts) ==
    IF n = 0 THEN <<>>
    ELSE Put(JsonModeObj(variables, n - 1, mode, opts),
             normalizeDotName(variables[n].name),
             processValue(variables[n], mode.modeId, opts))

RECURSIVE JsonRoot(_, _, _)
\* lines 122-130: root after the first k modes
JsonRoot(variables, k, opts) ==
    IF k = 0 THEN <<>>
    ELSE Put(JsonRoot(variables, k - 1, opts),
             ModeKey(opts.modes[k].name),
             Obj(JsonModeObj(variables, Len(variables), opts.modes[k], opts)))

\* the object that JSON.stringify prints
generateJSON(variables, opts) ==
    [t |-> "json", root |-> Obj(JsonRoot(variables, Len(opts.modes), opts))]

\* lines 156-165: the leaf of a variable; val.$ref is read of objects only
DtcgLeaf(v, val) ==
    Obj([k \in {"$type", "$description", "$value"} |->
            CASE k = "$type" -> Str(v.type)
              [] k = "$description" -> Undefined
              [] OTHER -> IF val.t = "ref" THEN Ref(val.ref) ELSE val])

RECURSIVE DtcgInsert(_, _, _)
\* lines 149-171: current after the leaf is put at the end of path
DtcgInsert(current, path, leaf) ==
    LET cleanPart == ReplaceSpaceRuns(toLowerCase(Head(path)), "-", FALSE)
        next == IF cleanPart \in DOMAIN current.props
                THEN current.props[cleanPart] ELSE Obj(<<>>)
    IN  IF Len(path) = 1 THEN Obj(Put(current.props, cleanPart, leaf))
        ELSE Obj(Put(current.props, cleanPart, DtcgInsert(next, Tail(path), leaf)))

RECURSIVE DtcgModeRoot(_, _, _, _)
\* lines 143-172: modeRoot after the first n variables
DtcgModeRoot(variables, n, mode, opts) ==
    IF n = 0 THEN Obj(<<>>)
    ELSE DtcgInsert(DtcgModeRoot(variables, n - 1, mode, opts),
                    Split(variables[n].name, "/"),
                    DtcgLeaf(variables[n],
                             processValue(variables[n], mode.modeId, opts)))

RECURSIVE DtcgModes(_, _, _)
\* lines 141-175: root.$modes after the first k modes
DtcgModes(variables, k, opts) ==
    IF k = 0 THEN <<>>
    ELSE Put(DtcgModes(variables, k - 1, opts),
             ModeKey(opts.modes[k].name),
             DtcgModeRoot(variables, Len(variables), opts.modes[k], opts))

\* the object that JSON.stringify prints
generateDTCG(variables, opts, collectionName) ==
    [t |-> "json",
     root |-> Obj([k \in {"$modes"} |->
                      Obj(DtcgModes(variables, Len(opts.modes), opts))])]

generateExport(variables, opts, collectionName) ==
    CASE opts.format = "css" -> generateCSS(variables, opts)
      [] opts.format = "scss" -> generateSCSS(variables, opts)
      [] opts.format = "json" -> generateJSON(variables, opts)
      [] opts.format = "dtcg" -> generateDTCG(variables, opts, collectionName)
      [] OTHER -> [t |-> "text", lines |-> <<"// Unknown format">>]

\* a mode of no collection of the document
PrintMode == [modeId |-> "p1", name |-> "Print"]

\* options.modes: all the modes, one of them, both in the other order, or one
\* of them with a mode the variables hold no value for
ModeSelections(modes) ==
    {modes, <<modes[1]>>, <<modes[2], modes[1]>>, <<modes[1], PrintMode>>}

\* the formatting settings: color format, unit, per-variable units
Formattings ==
    { [colorFormat |-> "hex", unitFormat |-> "px", unitPerVariable |-> <<>>],
      [colorFormat |-> "rgba", unitFormat |-> "rem",
       unitPerVariable |-> [v \in {"A"} |-> "%"]] }

ExportOptions(modes) ==
    {[format |-> f, modes |-> ms, aliasMode |-> am, colorFormat |-> fm.colorFormat,
      unitFormat |-> fm.unitFormat, baseFontSize |-> 16,
      unitPerVariable |-> fm.unitPerVariable] :
        f \in {"css", "scss", "json", "dtcg"}, ms \in ModeSelections(modes),
        am \in {"resolved", "alias"}, fm \in Formattings}

\* generateExport over the loaded detail, as the output tab calls it
Export ==
    /\ gpc = "loaded"
    /\ output = NoOutput
    /\ \E opts \in ExportOptions(detail.modes) :
          /\ options' = opts
          /\ output' = generateExport(detail.variables, opts, detail.name)
    /\ UNCHANGED <<docVars, resolverVars, scanVars>>

\* the documents whose detail is exported: aligned mode names, or two modes
\* whose names differ in letter case only
ExportLayouts ==
    { << <<"Light", "Dark">>, <<"Light", "Dark">> >>,
      << <<"Light", "light">>, <<"Dark", "Light">> >> }

\* the exported documents: A aliases anything in either mode, B aliases A or C
\* in its first mode, C holds direct values
ExportGraphs ==
    {tg \in [Slots -> AliasTargets] :
        /\ tg[<<"B", 1>>] \in {"none", "A", "C"}
        /\ tg[<<"B", 2>>] = "none"
        /\ tg[<<"C", 1>>] = "none"
        /\ tg[<<"C", 2>>] = "none"}

InitExport ==
    /\ DocInit(ExportLayouts, ResolvedTypes, ExportGraphs)
    /\ ResolverIdle
    /\ ScanIdle
    /\ ExportIdle
    /\ PluginIdle
    /\ UtilIdle
    /\ TreeIdle
    /\ ViewIdle

NextExport ==
    /\ \/ \E cid \in CollectionIds \cup {GoneCollection} : GetCollectionData(cid)
       \/ ResolveStart
       \/ ResolveRecurse
       \/ ResolveReturn
       \/ StoreToken
       \/ Export
    /\ UNCHANGED <<pluginVars, utilVars, treeVars, viewVars>>

SpecExport == InitExport /\ [][NextExport]_vars

\* documents of color variables in which the name of one variable of X is a
\* leading part of the other's, in either order of getLocalVariablesAsync,
\* or is not; B an alias of C in its first mode, or not
InitNested ==
    /\ \E l \in ExportLayouts :
          collectionMap = [c \in CollectionIds |->
                              MkCollection(c, IF c = "X" THEN l[1] ELSE l[2])]
    /\ \E names \in {<<"text", "text/sm">>, <<"text/sm", "text">>,
                      <<"Text/Sm", "text/sm/tight">>, <<"Bg", "Blue/500">>},
          tg \in {g \in ExportGraphs :
                     \A sl \in Slots : g[sl] # "none" => sl = <<"B", 1>> /\ g[sl] = "C"} :
          variableMap =
             [v \in VarIds |->
                 [MkVariable(v, "COLOR", tg) EXCEPT
                     !.name = CASE v = "A" -> names[1]
                                [] v = "B" -> names[2]
                                [] OTHER -> NameOf(v)]]
    /\ ResolverIdle
    /\ ScanIdle
    /\ ExportIdle
    /\ PluginIdle
    /\ UtilIdle
    /\ TreeIdle
    /\ ViewIdle

SpecNested == InitNested /\ [][NextExport]_vars

---------------------------------------------------------------------------
(* The plugin's message handler (token-export.ts, lines 203-250 and        *)
(* 465-479) and the UI's requests (ui.tsx, lines 839-853)                  *)

\* lines 468-471
LoadedReply(data) == [type |-> "collection-data-loaded", payload |-> data]

\* lines 269, 473-477: the message of the Error thrown for a missing
\* collection, as the catch block posts it
ErrorReply(collectionId) ==
    [type |-> "error",
     payload |-> "Error loading collection data: " \o "Collection "
                    \o collectionId \o " not found"]

\* handleSelectCollection: the UI posts get-collection-data
SelectCollection(cid) ==
    /\ Len(requests) < MaxRequests
    /\ requests' = Append(requests, cid)
    /\ inbox' = Append(inbox, cid)
    /\ UNCHANGED <<outbox, docVars, resolverVars, scanVars, exportVars,
                   utilVars, treeVars, viewVars>>

\* the handler without its catch block: the rejection is left unhandled
HandleGetCollectionData_NoCatch ==
    /\ inbox # <<>>
    /\ GetCollectionData(Head(inbox))
    /\ inbox' = Tail(inbox)
    /\ UNCHANGED <<requests, outbox, utilVars, treeVars, viewVars>>

\* onmessage takes a get-collection-data message and handleGetCollectionData
\* calls getCollectionData; a missing collection makes it throw, and the
\* catch block posts the error
HandleGetCollectionData ==
    /\ inbox # <<>>
    /\ GetCollectionData(Head(inbox))
    /\ inbox' = Tail(inbox)
    /\ outbox' = IF Head(inbox) \in DOMAIN collectionMap THEN outbox
                 ELSE Append(outbox, ErrorReply(Head(inbox)))
    /\ UNCHANGED <<requests, utilVars, treeVars, viewVars>>

\* getCollectionData's loops, inside the handler
HandlerResolve ==
    /\ \/ ResolveStart
       \/ ResolveRecurse
       \/ ResolveReturn
    /\ UNCHANGED <<pluginVars, utilVars, treeVars, viewVars>>

\* the end of an iteration; after the last one getCollectionData returns and
\* the handler posts the detail
HandlerStoreToken ==
    /\ StoreToken
    /\ outbox' = IF gpc' = "loaded" THEN Append(outbox, LoadedReply(detail'))
                 ELSE outbox
    /\ UNCHANGED <<requests, inbox, utilVars, treeVars, viewVars>>

\* the documents the plugin runs on: A aliases B or a deleted variable, B
\* aliases A in its first mode, C holds direct values
PluginGraphs ==
    {tg \in ExportGraphs :
        /\ tg[<<"A", 1>>] \in {"none", "B", GoneId}
        /\ tg[<<"A", 2>>] \in {"none", "B", GoneId}
        /\ tg[<<"B", 1>>] \in {"none", "A"}}

InitPlugin ==
    /\ DocInit(ExportLayouts, {"COLOR"}, PluginGraphs)
    /\ ResolverIdle
    /\ ScanIdle
    /\ ExportIdle
    /\ PluginIdle
    /\ UtilIdle
    /\ TreeIdle
    /\ ViewIdle

NextPlugin ==
    \/ \E cid \in CollectionIds \cup {GoneCollection} : SelectCollection(cid)
    \/ HandleGetCollectionData
    \/ HandlerResolve
    \/ HandlerStoreToken

\* once onmessage has taken a message its handler runs to completion, and a
\* posted message is delivered
SpecPlugin ==
    /\ InitPlugin
    /\ [][NextPlugin]_vars
    /\ WF_vars(HandleGetCollectionData)
    /\ WF_vars(HandlerResolve)
    /\ WF_vars(HandlerStoreToken)

---------------------------------------------------------------------------
(* Calls of the token-utils functions and of determineCategory *)

\* the calls made: hexToRgba on the 6-digit hex strings of both letter
\* cases, with and without the leading #, and on strings it is not meant for;
\* formatColor on empty, alias-pointer, hex, rgb()/rgba() and other strings,
\* with the formats of the export options and strings that are no format;
\* formatUnit and determineCategory
UtilCalls ==
    LET HexPairs == {"00", "0a", "A0", "ff", "Ff", "3C", "7f"}
        HexStrings ==
            {p \o x \o y \o z :
                p \in {"", "#"}, x \in HexPairs, y \in HexPairs, z \in HexPairs}
        OtherHexInputs ==
            {"", "#", "#fff", "12345", "#ff00aa80", "FF00AA80", "#gggggg"}
        ColorInputs ==
            {"", "{color.blue.500}", "{Blue/500}", "#", "#fff", "#12345",
             "#ff00aa", "#FF00AA", "#Ff00aa80", "#ff00aa00", "#gggggg",
             "#12345g", "#ff00aa8", "ff00aa", "rgb(255, 0, 10)",
             "rgba(12, 0, 255, 0.5)", "rgb(1,2)", "rgb(.,.,.)",
             "rgba(1, 2, 3, .)", "rgb", "red", "hsl(10, 20%, 30%)"}
        ColorFormats == {"hex", "rgb", "rgba", "HEX", ""}
        NumberInputs == {0, 8, 12, 16, 100, NaN}
        UnitInputs == {"px", "rem", "em", "curr", "none", "%", "vw", "pt", ""}
        BaseFontSizes == {16, 10}
        NameInputs ==
            {"Blue/500", "text/primary", "Brand/Primary Color",
             "background/base", "Light/10", "bg 50 ", "Accent", "TEXT/on",
             " text/x", "Gray/5", "surface/preference", "Gray/1000", "fg-dark",
             "border"}
        CollectionNameInputs == {"", "Primitives", "Semantic Colors", "Brand"}
    IN  {[fn |-> "hexToRgba", args |-> <<h>>] : h \in HexStrings \cup OtherHexInputs}
        \cup {[fn |-> "formatColor", args |-> <<v, f>>] :
                    v \in ColorInputs, f \in ColorFormats}
        \cup {[fn |-> "formatUnit", args |-> <<n, u, b>>] :
                    n \in NumberInputs, u \in UnitInputs, b \in BaseFontSizes}
        \cup {[fn |-> "determineCategory", args |-> <<n, c>>] :
                    n \in NameInputs, c \in CollectionNameInputs}

\* hexToRgba(h), and rgbaToHex of the components it returned
HexRoundTrip ==
    /\ call.fn = "hexToRgba"
    /\ ret = <<>>
    /\ LET c == hexToRgba(call.args[1]) IN
       ret' = IF c.ok
              THEN <<Rgba(c.r, c.g, c.b, c.a), Str(rgbaToHex(c.r, c.g, c.b, c.a))>>
              ELSE <<[t |-> "Error",
                      message |-> "Invalid hex color: "
                                     \o ReplaceFirst(call.args[1], "#", "")]>>
    /\ UNCHANGED <<call, docVars, resolverVars, scanVars, exportVars, pluginVars,
                   treeVars, viewVars>>

FormatColor ==
    /\ call.fn = "formatColor"
    /\ ret = <<>>
    /\ ret' = <<Str(formatColor(call.args[1], call.args[2]))>>
    /\ UNCHANGED <<call, docVars, resolverVars, scanVars, exportVars, pluginVars,
                   treeVars, viewVars>>

FormatUnit ==
    /\ call.fn = "formatUnit"
    /\ ret = <<>>
    /\ ret' = <<Str(formatUnit(call.args[1], call.args[2], call.args[3]))>>
    /\ UNCHANGED <<call, docVars, resolverVars, scanVars, exportVars, pluginVars,
                   treeVars, viewVars>>

DetermineCategory ==
    /\ call.fn = "determineCategory"
    /\ ret = <<>>
    /\ ret' = <<Str(determineCategory(call.args[1], call.args[2]))>>
    /\ UNCHANGED <<call, docVars, resolverVars, scanVars, exportVars, pluginVars,
                   treeVars, viewVars>>

\* one call, on a document that plays no part in it
InitUtils ==
    /\ DocInit({<< <<"Light", "Dark">>, <<"Light", "Dark">> >>}, {"COLOR"},
               AliasGraphs(0))
    /\ ResolverIdle
    /\ ScanIdle
    /\ ExportIdle
    /\ PluginIdle
    /\ TreeIdle
    /\ ViewIdle
    /\ call \in UtilCalls
    /\ ret = <<>>

NextUtils ==
    \/ HexRoundTrip
    \/ FormatColor
    \/ FormatUnit
    \/ DetermineCategory

SpecUtils == InitUtils /\ [][NextUtils]_vars

---------------------------------------------------------------------------
(* scanAllTokens (token-scanner.ts): the tree of the document's color      *)
(* styles and color variables. An object is Obj(props), props a function   *)
(* of its keys; an array is the object of its indices.                     *)

\* lines 65-73 and 128-136: the TokenValue of a style or variable
ColorToken(colorValue, idKey, id, path) ==
    Obj([k \in {"value", "type", "description", "$extensions"} |->
            CASE k = "value" -> Str(colorValue)
              [] k = "type" -> Str("color")
              [] k = "description" -> Undefined
              [] OTHER ->
                   Obj([x \in {idKey, "originalPath"} |->
                          IF x = idKey THEN Str(id)
                          ELSE Obj([n \in {Dec(i - 1) : i \in DOMAIN path} |->
                                      Str(path[ToNumber(n) + 1])])])])

RECURSIVE SetPath(_, _, _)
\* lines 216-227: walk effectivePath from current, putting {} wherever the
\* part is missing, falsy or no object, and assign the token at the last part
SetPath(current, effectivePath, token) ==
    LET part == Head(effectivePath)
        next == IF part \in DOMAIN current.props /\ current.props[part].t = "object"
                THEN current.props[part]
                ELSE Obj(<<>>)
    IN  IF Len(effectivePath) = 1 THEN Obj(Put(current.props, part, token))
        ELSE Obj(Put(current.props, part, SetPath(next, Tail(effectivePath), token)))

\* addToTokens, for a category that exists and a token of type color
addToTokens(tree, category, path, token) ==
    LET effectivePath == IF path = <<>> \/ Head(path) # "color"
                         THEN <<"color">> \o path ELSE path
    IN  Obj(Put(tree.props, category,
                SetPath(tree.props[category], effectivePath, token)))

\* scanAllTokens is called: the four empty categories
ScanAllTokens ==
    /\ spc = "idle"
    /\ spc' = "styles"
    /\ tokens' = Obj([c \in {"primitives", "semantic", "components", "uncategorized"}
                         |-> Obj(<<>>)])
    /\ UNCHANGED <<scanned, docVars, resolverVars, scanVars, exportVars, pluginVars,
                   utilVars, viewVars>>

\* one iteration of the loop of scanColorStyles
ScanColorStyle(style) ==
    /\ spc = "styles"
    /\ Len(scanned) < MaxStyles
    /\ scanned' = Append(scanned, style)
    /\ tokens' =
          IF style.paints = <<>> \/ style.paints[1].type # "SOLID" THEN tokens
          ELSE LET paint == style.paints[1]
                   colorValue ==
                       rgbaToHex(paint.color.r, paint.color.g, paint.color.b,
                                 IF paint.opacity # Undefined THEN paint.opacity.n
                                 ELSE 1000)
                   path == parseStyleName(style.name)
               IN  addToTokens(tokens, determineCategory(style.name, ""), path,
                               ColorToken(colorValue, "com.figma.style-id",
                                          "S:" \o style.name, path))
    /\ UNCHANGED <<spc, docVars, resolverVars, scanVars, exportVars, pluginVars,
                   utilVars, viewVars>>

RECURSIVE ScanVariablesFrom(_, _)
\* the loop of scanColorVariables from the i-th variable on
ScanVariablesFrom(tree, i) ==
    IF i > Len(allVariables) THEN tree
    ELSE LET variable == variableMap[allVariables[i]]
             firstModeId == ModeIdsOf(variable.variableCollectionId)[1]
             value == variable.valuesByMode[firstModeId]
             path == parseStyleName(variable.name)
         IN  IF variable.resolvedType # "COLOR" \/ value.t # "rgba"
             THEN ScanVariablesFrom(tree, i + 1)
             ELSE ScanVariablesFrom(
                    addToTokens(tree,
                        determineCategory(variable.name,
                            collectionMap[variable.variableCollectionId].name),
                        path,
                        ColorToken(rgbaToHex(value.r, value.g, value.b, value.a),
                                   "com.figma.variable-id", variable.id, path)),
                    i + 1)

\* scanAllTokens returning the tree with its empty categories
ScanColorVariables_NoCleanup ==
    /\ spc = "styles"
    /\ spc' = "done"
    /\ tokens' = ScanVariablesFrom(tokens, 1)
    /\ UNCHANGED <<scanned, docVars, resolverVars, scanVars, exportVars, pluginVars,
                   utilVars, viewVars>>

\* the loop of scanColorStyles ends; scanColorVariables runs, the empty
\* categories are deleted and scanAllTokens returns
ScanColorVariables ==
    /\ spc = "styles"
    /\ spc' = "done"
    /\ LET tree == ScanVariablesFrom(tokens, 1) IN
       tokens' = Obj([c \in {k \in DOMAIN tree.props :
                                  DOMAIN tree.props[k].props # {}}
                         |-> tree.props[c]])
    /\ UNCHANGED <<scanned, docVars, resolverVars, scanVars, exportVars, pluginVars,
                   utilVars, viewVars>>

\* documents whose variables are colors or numbers, A an alias or not in its
\* first mode
InitScan ==
    /\ DocInit({<< <<"Light", "Dark">>, <<"Light", "Dark">> >>}, {"COLOR", "FLOAT"},
               {tg \in AliasGraphs(1) : \A sl \in Slots : tg[sl] # "none" => sl = <<"A", 1>> /\ tg[sl] = "B"})
    /\ ResolverIdle
    /\ ScanIdle
    /\ ExportIdle
    /\ PluginIdle
    /\ UtilIdle
    /\ TreeIdle
    /\ ViewIdle

\* the styles figma.getLocalPaintStylesAsync lists are solid paints with and
\* without opacity, a gradient, and a style with no paint
NextScan ==
    LET Solid(k, opacity) ==
            <<[type |-> "SOLID", color |-> Rgba(85 * k, 510 - 85 * k, 51 * k, 1000),
               opacity |-> opacity]>>
        PaintStyles ==
            {[name |-> "text", paints |-> Solid(0, Undefined)],
             [name |-> "text/primary", paints |-> Solid(1, Num(500))],
             [name |-> "Color", paints |-> Solid(2, Undefined)],
             [name |-> "Color/Blue", paints |-> Solid(3, Num(500))],
             [name |-> "Accent", paints |-> Solid(4, Undefined)],
             [name |-> "Brand/Primary Color", paints |-> Solid(5, Num(1000))],
             [name |-> "Blue/500", paints |-> Solid(6, Undefined)],
             [name |-> "Fade", paints |-> <<[type |-> "GRADIENT_LINEAR"]>>],
             [name |-> "Unused", paints |-> <<>>]}
    IN  \/ ScanAllTokens
        \/ \E style \in PaintStyles : ScanColorStyle(style)
        \/ ScanColorVariables

SpecScan == InitScan /\ [][NextScan]_vars

(***************************************************************************)
(* The token store (token-store.tsx) and the variable table's two handlers *)
(* that dispatch to it (VariableTable.tsx).  An entry of localEdits is a   *)
(* function from the names of the fields it has to their values, so that   *)
(* { ...currentEdit, value } is Put(currentEdit, "value", value).          *)
(***************************************************************************)

\* the CollectionDetail payloads of SET_COLLECTION: one collection with two
\* modes and one with a single mode (token-types, CollectionDetail)
CollectionPayloads ==
    {[collectionId |-> "X",
      modes |-> <<[modeId |-> "x1"], [modeId |-> "x2"]>>,
      variables |-> <<[id |-> "A", type |-> "color"], [id |-> "B", type |-> "number"]>>],
     [collectionId |-> "Y",
      modes |-> <<[modeId |-> "y1"]>>,
      variables |-> <<[id |-> "C", type |-> "color"]>>]}

\* tokenReducer with SET_COLLECTION patching the previous state instead of
\* starting from initialState
tokenReducer_Patch(state, action) ==
    LET currentEdit(id) ==
            IF id \in DOMAIN state.localEdits THEN state.localEdits[id] ELSE <<>>
    IN  CASE action.type = "SET_ALL_COLLECTIONS" ->
                [initialState EXCEPT !.allCollections = action.payload]
          [] action.type = "SET_COLLECTION" ->
                [state EXCEPT
                    !.activeCollectionId = action.payload.collectionId,
                    !.collection = action.payload]
          [] action.type = "SET_MODE" ->
                [state EXCEPT !.activeModeId = action.payload]
          [] action.type = "SET_LOCAL_EDIT" ->
                LET key == action.payload.variableId \o ":" \o action.payload.modeId
                IN  [state EXCEPT !.localEdits =
                        Put(@, key, [originalValue |-> "",
                                     value |-> action.payload.value,
                                     isDirty |-> TRUE])]
          [] action.type = "UPDATE_TOKEN_VALUE" ->
                [state EXCEPT !.localEdits =
                    Put(@, action.payload.id,
                        Put(currentEdit(action.payload.id), "value", action.payload.value))]
          [] action.type = "UPDATE_TOKEN_NORMALIZATION" ->
                [state EXCEPT !.localEdits =
                    Put(@, action.payload.id,
                        Put(currentEdit(action.payload.id), "normalization",
                            action.payload.normalization))]
          [] action.type = "TOGGLE_ALIASES" ->
                [state EXCEPT !.showAliases = action.payload]
          [] action.type = "RESET" -> initialState
          [] OTHER -> state

\* token-store.tsx, lines 47-118
tokenReducer(state, action) ==
    LET currentEdit(id) ==
            IF id \in DOMAIN state.localEdits THEN state.localEdits[id] ELSE <<>>
    IN  CASE action.type = "SET_ALL_COLLECTIONS" ->
                [initialState EXCEPT !.allCollections = action.payload]
          [] action.type = "SET_COLLECTION" ->
                [initialState EXCEPT
                    !.allCollections = state.allCollections,
                    !.showAliases = state.showAliases,
                    !.baseFontSize = state.baseFontSize,
                    !.activeCollectionId = action.payload.collectionId,
                    !.collection = action.payload,
                    !.activeModeId =
                        IF Len(action.payload.modes) = 1
                        THEN action.payload.modes[1].modeId
                        ELSE "ALL"]
          [] action.type = "SET_MODE" ->
                [state EXCEPT !.activeModeId = action.payload]
          [] action.type = "SET_LOCAL_EDIT" ->
                LET key == action.payload.variableId \o ":" \o action.payload.modeId
                IN  [state EXCEPT !.localEdits =
                        Put(@, key, [originalValue |-> "",
                                     value |-> action.payload.value,
                                     isDirty |-> TRUE])]
          [] action.type = "UPDATE_TOKEN_VALUE" ->
                [state EXCEPT !.localEdits =
                    Put(@, action.payload.id,
                        Put(currentEdit(action.payload.id), "value", action.payload.value))]
          [] action.type = "UPDATE_TOKEN_NORMALIZATION" ->
                [state EXCEPT !.localEdits =
                    Put(@, action.payload.id,
                        Put(currentEdit(action.payload.id), "normalization",
                            action.payload.normalization))]
          [] action.type = "TOGGLE_ALIASES" ->
                [state EXCEPT !.showAliases = action.payload]
          [] action.type = "RESET" -> initialState
          [] OTHER -> state

\* token-store.tsx, lines 129-137: dispatch of one action to the reducer
Dispatch(action) ==
    /\ store' = tokenReducer(store, action)
    /\ UNCHANGED <<ui, sync, docVars, resolverVars, scanVars, exportVars, pluginVars,
                   utilVars, treeVars>>

\* VariableTable.tsx, lines 12-23: the table is mounted with the store's
\* collection, edits go to the collection's first mode
handleValueChange(variableId, newValue) ==
    /\ store.collection # Null
    /\ LET modeId == store.collection.modes[1].modeId
       IN  Dispatch([type |-> "SET_LOCAL_EDIT",
                     payload |-> [variableId |-> variableId, modeId |-> modeId,
                                  value |-> newValue]])

\* VariableTable.tsx, lines 25-44
handleNormalizationChange(variableId, type, value) ==
    /\ store.collection # Null
    /\ LET modeId == store.collection.modes[1].modeId
           editKey == variableId \o ":" \o modeId
           currentEdit ==
               IF editKey \in DOMAIN store.localEdits THEN store.localEdits[editKey]
               ELSE <<>>
           currentNorm ==
               IF "normalization" \in DOMAIN currentEdit THEN currentEdit["normalization"]
               ELSE <<>>
           newNorm ==
               IF type = "color" THEN Put(currentNorm, "colorFormat", value)
               ELSE IF type = "number" THEN Put(currentNorm, "unit", value)
               ELSE currentNorm
       IN  Dispatch([type |-> "UPDATE_TOKEN_NORMALIZATION",
                     payload |-> [id |-> variableId, normalization |-> newNorm]])

\* VariableTable.tsx, lines 66-69: the normalization the table shows for a
\* variable of the collection it is mounted with
localNorm(state, id) ==
    LET editKey == id \o ":" \o state.collection.modes[1].modeId
    IN  IF editKey \in DOMAIN state.localEdits
           /\ "normalization" \in DOMAIN state.localEdits[editKey]
        THEN state.localEdits[editKey]["normalization"]
        ELSE <<>>

InitStore ==
    /\ DocInit({<< <<"Light", "Dark">>, <<"Light", "Dark">> >>}, {"COLOR"},
               AliasGraphs(0))
    /\ ResolverIdle
    /\ ScanIdle
    /\ ExportIdle
    /\ PluginIdle
    /\ UtilIdle
    /\ TreeIdle
    /\ ViewIdle

NextStore ==
    \/ \E payload \in {<<>>, <<[id |-> "X", name |-> "Primitives"],
                                [id |-> "Y", name |-> "Semantic"]>>} :
           Dispatch([type |-> "SET_ALL_COLLECTIONS", payload |-> payload])
    \/ \E payload \in CollectionPayloads :
           Dispatch([type |-> "SET_COLLECTION", payload |-> payload])
    \/ \E payload \in {"ALL", "x1", "x2"} :
           Dispatch([type |-> "SET_MODE", payload |-> payload])
    \/ \E id \in {"A", "C"} :
           Dispatch([type |-> "UPDATE_TOKEN_VALUE",
                     payload |-> [id |-> id, value |-> "#000000"]])
    \/ \E payload \in BOOLEAN :
           Dispatch([type |-> "TOGGLE_ALIASES", payload |-> payload])
    \/ Dispatch([type |-> "RESET"])
    \/ Dispatch([type |-> "UNKNOWN"])
    \/ \E i \in 1..2, newValue \in {"#ffffff", "12"} :
           /\ store.collection # Null
           /\ i \in DOMAIN store.collection.variables
           /\ handleValueChange(store.collection.variables[i].id, newValue)
    \/ \E i \in 1..2, value \in {"hex", "rgb", "rem"} :
           /\ store.collection # Null
           /\ i \in DOMAIN store.collection.variables
           /\ store.collection.variables[i].type = (IF value = "rem" THEN "number" ELSE "color")
           /\ handleNormalizationChange(store.collection.variables[i].id,
                                        store.collection.variables[i].type, value)

SpecStore == InitStore /\ [][NextStore]_vars

---------------------------------------------------------------------------
(* Properties of resolveVariableValue *)

ModeNameOf(c, m) ==
    LET ms == collectionMap[c].modes
    IN  ms[CHOOSE i \in DOMAIN ms : ms[i].modeId = m].name

\* every mode value of a is an alias of b
AliasesInEveryMode(a, b) ==
    \A m \in DOMAIN variableMap[a].valuesByMode :
        variableMap[a].valuesByMode[m] = VariableAlias(b)

\* the (variable, mode) pairs of the document
Pairs == {<<v, m>> \in VarIds \X {"x1", "x2", "y1", "y2"} :
             m \in DOMAIN variableMap[v].valuesByMode}

\* C1: when A and B alias each other in every mode (A->B->A), a resolution
\* started at A or at B with an empty visited set returns undefined, for
\* every mode, in one collection or across two.
C1_CycleReturnsUndefined ==
    \A a, b \in VarIds :
        (/\ a # b
         /\ AliasesInEveryMode(a, b)
         /\ AliasesInEveryMode(b, a)
         /\ rpc = "done"
         /\ top[1] \in {a, b})
        => result = Undefined

\* a finished resolution of A, where A (in X) and C (in Y) alias each other
\* and no mode name of X is a mode name of Y
C1_Witness ==
    /\ rpc = "done"
    /\ top = <<"A", "x2">>
    /\ AliasesInEveryMode("A", "C")
    /\ AliasesInEveryMode("C", "A")
    /\ ModeNameOf("Y", "y1") = "Day"
    /\ result = Undefined

\* C2: a resolution never overflows and makes at most as many recursive
\* calls as the document has (variable, mode) pairs; each recursive call
\* has added one new pair to visited.
C2_BoundedRecursion ==
    /\ calls <= Cardinality(Pairs)
    /\ result # RangeError
    /\ rpc = "call" => Cardinality(visited) = calls
    /\ visited \subseteq Pairs

\* a resolution that ran through four pairs before it met a cycle
C2_Witness ==
    /\ rpc = "done"
    /\ calls = 4
    /\ <<rvar, rmode>> \in visited
    /\ result = Undefined

\* C3: a resolution that ends at a variable holding a primitive returns
\* that variable's value: its hex or rgba() string for a color, the raw
\* primitive otherwise; never undefined and never an alias pointer.
C3_TerminalPrimitive ==
    LET raw == variableMap[rvar].valuesByMode[rmode] IN
    (rpc = "done" /\ ~IsAlias(raw)) =>
        /\ result # Undefined
        /\ ~IsAlias(result)
        /\ IF variableMap[rvar].resolvedType = "COLOR"
           THEN /\ result.t = "string"
                /\ result.s = rgbaToHex(raw.r, raw.g, raw.b, raw.a)
                /\ \/ SubSeq(result.s, 1, 1) = "#" /\ Len(result.s) = 7
                   \/ SubSeq(result.s, 1, 5) = "rgba("
           ELSE result = raw

\* a color resolved through two hops, the second into another collection
C3_Witness ==
    /\ rpc = "done"
    /\ calls = 2
    /\ top[1] = "A"
    /\ rvar = "C"
    /\ result = Str("#d52b80")

\* C4: each alias hop continues in the target collection's mode that has
\* the current mode's name (the first such), and in the target's first
\* mode only when the target has no mode of that name.
C4_ModeByName ==
    hop # NoHop =>
        LET name == ModeNameOf(hop.from[1], hop.from[2])
            tms == collectionMap[hop.to[1]].modes
            named == {i \in DOMAIN tms : tms[i].name = name}
        IN  IF named = {}
            THEN hop.to[2] = tms[1].modeId
            ELSE /\ ModeNameOf(hop.to[1], hop.to[2]) = name
                 /\ \A i \in named : \E j \in 1..i : tms[j].modeId = hop.to[2]

\* a hop from the first mode of X into the second mode of Y, which has
\* the same name
C4_Witness ==
    /\ hop.from = <<"X", "x1">>
    /\ hop.to = <<"Y", "y2">>
    /\ ModeNameOf("Y", "y2") = ModeNameOf("X", "x1")

---------------------------------------------------------------------------
(* Properties of getCollectionData *)

RECURSIVE ResolveAlone(_, _, _, _)
\* resolveVariableValue run to its end on a visited set of its own
ResolveAlone(v, m, c, vis) ==
    LET b == ResolveBody(v, m, c, vis) IN
    IF b.kind = "return" THEN b.value
    ELSE ResolveAlone(b.variable, b.modeId, b.collection, b.visited)

\* C5: every Token getCollectionData has stored holds, as resolvedValue,
\* what a resolution of that (variable, mode) pair alone, from an empty
\* visited set, returns: earlier resolutions leave no trace in it.
C5_FreshVisitedPerPair ==
    /\ \A i \in DOMAIN variablesDetail :
          \A m \in DOMAIN variablesDetail[i].valuesByMode :
             variablesDetail[i].valuesByMode[m].resolvedValue
                = ResolveAlone(variablesDetail[i].id, m, gcoll, {})
    /\ \A m \in DOMAIN valuesByMode :
          valuesByMode[m].resolvedValue
             = ResolveAlone(collectionVars(gcoll)[gvi], m, gcoll, {})

\* the detail of X where A aliases B: B's pairs were visited while A was
\* resolved, and B's own Tokens still carry its values
C5_Witness ==
    /\ gpc = "loaded"
    /\ gcoll = "X"
    /\ AliasesInEveryMode("A", "B")
    /\ \A m \in {"x1", "x2"} :
          /\ ~IsAlias(variableMap["B"].valuesByMode[m])
          /\ detail.variables[1].valuesByMode[m].resolvedValue # Undefined
          /\ detail.variables[2].valuesByMode[m].resolvedValue
                = detail.variables[1].valuesByMode[m].resolvedValue

---------------------------------------------------------------------------
(* Properties of the export renderer *)

\* an export of the loaded detail has been generated
Exported == gpc = "loaded" /\ output # NoOutput

\* property key of obj, undefined when obj has none
Prop(obj, key) ==
    IF obj.t = "object" /\ key \in DOMAIN obj.props THEN obj.props[key]
    ELSE Undefined

RECURSIVE Descend(_, _)
\* the object reached from obj along path
Descend(obj, path) ==
    IF Len(path) = 0 THEN obj ELSE Descend(Prop(obj, Head(path)), Tail(path))

\* the text between prefix and the closing semicolon of the j-th output line
TextValue(j, prefix) ==
    IF /\ output.t = "text"
       /\ j \in DOMAIN output.lines
       /\ StartsWith(output.lines[j], prefix)
       /\ EndsWith(output.lines[j], ";")
    THEN Str(SubSeq(output.lines[j], Len(prefix) + 1, Len(output.lines[j]) - 1))
    ELSE Undefined

\* the key segments of a variable's DTCG path
DtcgPath(name) ==
    LET parts == Split(name, "/") IN
    [j \in DOMAIN parts |-> ReplaceSpaceRuns(toLowerCase(parts[j]), "-", FALSE)]

\* the requested modes whose entries the output still shows: in the two
\* object formats a later mode of the same key replaces an earlier one
Shown(k) ==
    \/ options.format \in {"css", "scss"}
    \/ \A j \in (k + 1)..Len(options.modes) :
          ModeKey(options.modes[j].name) # ModeKey(options.modes[k].name)

\* the (requested mode, variable) entries of the export
Entries ==
    {<<k, i>> \in (DOMAIN options.modes) \X (DOMAIN detail.variables) : Shown(k)}

\* the value the output carries for the i-th variable in the k-th requested
\* mode, read back from the output
Rendered(k, i) ==
    LET v == detail.variables[i]
        n == Len(detail.variables)
        key == ModeKey(options.modes[k].name)
    IN  CASE options.format = "css" ->
                 TextValue((k - 1) * (n + 4) + 2 + i,
                           "  --" \o normalizeDashName(v.name) \o ": ")
          [] options.format = "scss" ->
                 TextValue((k - 1) * (n + 2) + 1 + i,
                           "$" \o normalizeDashName(v.name) \o ": ")
          [] options.format = "json" ->
                 Prop(Prop(output.root, key), normalizeDotName(v.name))
          [] OTHER ->
                 Prop(Descend(Prop(Prop(output.root, "$modes"), key),
                              DtcgPath(v.name)),
                      "$value")

\* the Token of the i-th variable for the k-th requested mode
TokenAt(k, i) == detail.variables[i].valuesByMode[options.modes[k].modeId]

HasTokenAt(k, i) == HasToken(detail.variables[i], options.modes[k].modeId)

\* the document's value behind the Token
DocumentValue(k, i) ==
    variableMap[detail.variables[i].id].valuesByMode[options.modes[k].modeId]

\* C6: in resolved mode, a Token whose resolution failed (no resolvedValue)
\* is rendered as the literal null, in every format.
C6_FailedResolutionRendersNull ==
    (Exported /\ options.aliasMode = "resolved") =>
        \A e \in Entries :
            (HasTokenAt(e[1], e[2]) /\ TokenAt(e[1], e[2]).resolvedValue = Undefined)
                => Rendered(e[1], e[2]) = Str("null")

\* C7: in every format and alias mode, a variable without a Token for a
\* requested mode has an entry for that mode, and the entry is the literal
\* null.
C7_MissingTokenRendersNull ==
    Exported =>
        \A e \in Entries :
            ~HasTokenAt(e[1], e[2]) => Rendered(e[1], e[2]) = Str("null")

\* a DTCG export of two modes, the second one unknown to the variables: the
\* first variable's leaf is a value in the first mode and null in the second
C7_Witness ==
    /\ Exported
    /\ options.format = "dtcg"
    /\ Len(options.modes) = 2
    /\ options.modes[2] = PrintMode
    /\ Rendered(1, 1) \notin {Str("null"), Undefined}
    /\ Rendered(2, 1) = Str("null")

\* the name an alias pointer carries: the target's name, or the alias id
\* when the target is gone
PointerName(value) ==
    IF value.id \in DOMAIN variableMap THEN variableMap[value.id].name
    ELSE value.id

\* C8: in alias mode, a value that is an alias in the document is rendered
\* as the reference form of the format (var(--dash-name), $dash-name,
\* {dot-name}, { $ref: dot-name }), whatever the type of the variable and
\* whether it resolved or not.
C8_AliasRenderedAsReference ==
    (Exported /\ options.aliasMode = "alias") =>
        \A e \in Entries :
            (HasTokenAt(e[1], e[2]) /\ IsAlias(DocumentValue(e[1], e[2]))) =>
                LET name == PointerName(DocumentValue(e[1], e[2])) IN
                Rendered(e[1], e[2]) =
                    CASE options.format = "css" ->
                             Str("var(--" \o normalizeDashName(name) \o ")")
                      [] options.format = "scss" ->
                             Str("$" \o normalizeDashName(name))
                      [] options.format = "json" ->
                             Str("{" \o normalizeDotName(name) \o "}")
                      [] OTHER -> Ref(normalizeDotName(name))

\* a DTCG export in alias mode of a color that aliases B in its first mode
\* and a deleted variable in its second: both leaves are references, though
\* only the first resolved
C8_Witness ==
    /\ Exported
    /\ options.format = "dtcg"
    /\ options.aliasMode = "alias"
    /\ Len(options.modes) = 2
    /\ detail.variables[1].type = "color"
    /\ DocumentValue(1, 1) = VariableAlias("B")
    /\ Rendered(1, 1) = Ref("blue.500")
    /\ TokenAt(1, 1).resolvedValue # Undefined
    /\ HasTokenAt(2, 1)
    /\ Rendered(2, 1) = Ref("gone")
    /\ TokenAt(2, 1).resolvedValue = Undefined

\* the value of a Token that resolved mode renders
ResolvedCandidate(k, i) ==
    IF TokenAt(k, i).resolvedValue # Undefined THEN TokenAt(k, i).resolvedValue
    ELSE TokenAt(k, i).value

Literal(k, i) ==
    LET v == detail.variables[i]
        val == TokenAt(k, i).value.s
        unit == IF v.id \in DOMAIN options.unitPerVariable
                THEN options.unitPerVariable[v.id] ELSE options.unitFormat
    IN  CASE v.type = "color" -> formatColor(val, options.colorFormat)
          [] v.type # "color" /\ IsNumericString(val) ->
                 formatUnit(ToNumber(val), unit, options.baseFontSize)
          [] OTHER -> val

\* C10: the CSS text is, for each requested mode in the order of
\* options.modes, the comment of the mode, one :root block with one
\* declaration per variable in input order, and a blank line between
\* blocks; in alias mode every aliasing variable's declaration is a
\* var(--...) reference and every other declaration the formatted literal.
C10_CssBlocks ==
    (Exported /\ options.format = "css") =>
        LET n == Len(detail.variables)
            K == Len(options.modes)
            lines == output.lines
        IN  /\ Len(lines) = K * (n + 4) - 1
            /\ Cardinality({j \in DOMAIN lines : lines[j] = ":root {"}) = K
            /\ \A k \in 1..K :
                  LET base == (k - 1) * (n + 4) IN
                  /\ lines[base + 1] = "/* Mode: " \o options.modes[k].name \o " */"
                  /\ lines[base + 2] = ":root {"
                  /\ \A i \in 1..n : Rendered(k, i) # Undefined
                  /\ lines[base + n + 3] = "}"
                  /\ k < K => lines[base + n + 4] = ""
            /\ options.aliasMode = "alias" =>
                  \A k \in 1..K, i \in 1..n :
                     HasTokenAt(k, i) =>
                        IF IsAlias(DocumentValue(k, i))
                        THEN /\ StartsWith(Rendered(k, i).s, "var(--")
                             /\ EndsWith(Rendered(k, i).s, ")")
                        ELSE Rendered(k, i) = Str(Literal(k, i))

\* the CSS export in alias mode of X, both modes in reverse order, where A
\* aliases B in both modes: two blocks, and in each of them a reference line
\* for A and a literal line for B
C10_Witness ==
    /\ Exported
    /\ options.format = "css"
    /\ options.aliasMode = "alias"
    /\ options.colorFormat = "rgba"
    /\ gcoll = "X"
    /\ options.modes = <<detail.modes[2], detail.modes[1]>>
    /\ detail.modes[1].name = "Light"
    /\ detail.modes[2].name = "Dark"
    /\ detail.variables[1].type = "color"
    /\ AliasesInEveryMode("A", "B")
    /\ Len(output.lines) = 11
    /\ output.lines[1] = "/* Mode: Dark */"
    /\ output.lines[3] = "  --bg-hi-lo: var(--blue-500);"
    /\ output.lines[7] = "/* Mode: Light */"
    /\ output.lines[9] = "  --bg-hi-lo: var(--blue-500);"
    /\ ~StartsWith(Rendered(1, 2).s, "var(--")
    /\ ~StartsWith(Rendered(2, 2).s, "var(--")

\* C11: the JSON export has one top-level key per requested mode, and under
\* the key of each mode one entry per variable, carrying that variable's
\* value in that mode.
C11_JsonOneKeyPerMode ==
    (Exported /\ options.format = "json") =>
        /\ Cardinality(DOMAIN output.root.props) = Len(options.modes)
        /\ \A k \in DOMAIN options.modes :
              LET modeObj == Prop(output.root, ModeKey(options.modes[k].name)) IN
              /\ modeObj.t = "object"
              /\ Cardinality(DOMAIN modeObj.props) = Len(detail.variables)
              /\ \A i \in DOMAIN detail.variables :
                    Prop(modeObj, normalizeDotName(detail.variables[i].name))
                       = processValue(detail.variables[i], options.modes[k].modeId,
                                      options)


---------------------------------------------------------------------------
(* Properties of the collection detail *)

\* string s reads as an alias pointer {name}
IsPointerText(s) == StartsWith(s, "{") /\ EndsWith(s, "}")

\* C12: the returned detail lists the variables of the collection, each
\* with a Token for every mode of the collection; the resolvedValue of a
\* Token is undefined or a string or number that is no alias pointer, and it
\* is what resolveVariableValue returns for the pair.
C12_DetailComplete ==
    gpc = "loaded" =>
        /\ Len(detail.variables) = Len(collectionVars(gcoll))
        /\ \A i \in DOMAIN detail.variables :
              LET d == detail.variables[i] IN
              /\ d.id = collectionVars(gcoll)[i]
              /\ DOMAIN d.valuesByMode = ModeIdSet(gcoll)
              /\ \A m \in DOMAIN d.valuesByMode :
                    LET r == d.valuesByMode[m].resolvedValue IN
                    /\ \/ r = Undefined
                       \/ r.t = "number"
                       \/ r.t = "string" /\ ~IsPointerText(r.s)
                    /\ r = ResolveAlone(d.id, m, gcoll, {})

\* the detail of X where A aliases C (of collection Y) in its first mode
\* and a deleted variable in its second
C12_Witness ==
    /\ gpc = "loaded"
    /\ gcoll = "X"
    /\ variableMap["A"].valuesByMode["x1"] = VariableAlias("C")
    /\ variableMap["A"].valuesByMode["x2"] = VariableAlias(GoneId)
    /\ detail.variables[1].valuesByMode["x1"].value = Str("{text/sm}")
    /\ detail.variables[1].valuesByMode["x1"].resolvedValue
          \notin {Undefined, Str("{text/sm}")}
    /\ detail.variables[1].valuesByMode["x2"].resolvedValue = Undefined
    /\ Len(detail.variables) = 2

\* C13: the isAlias flag of a variable of the detail is true exactly when
\* the variable's own value is an alias in at least one mode of the
\* collection.
C13_IsAliasFlag ==
    gpc = "loaded" =>
        \A i \in DOMAIN detail.variables :
            detail.variables[i].isAlias
               = (\E m \in ModeIdSet(gcoll) :
                     IsAlias(variableMap[detail.variables[i].id].valuesByMode[m]))

\* the detail of X where A aliases B in its first mode only and B holds
\* direct values: A is flagged, B is not
C13_Witness ==
    /\ gpc = "loaded"
    /\ gcoll = "X"
    /\ variableMap["A"].valuesByMode["x1"] = VariableAlias("B")
    /\ ~IsAlias(variableMap["A"].valuesByMode["x2"])
    /\ \A m \in {"x1", "x2"} : ~IsAlias(variableMap["B"].valuesByMode[m])
    /\ detail.variables[1].id = "A"
    /\ detail.variables[1].isAlias
    /\ detail.variables[2].id = "B"
    /\ ~detail.variables[2].isAlias

---------------------------------------------------------------------------
(* Properties of the message handler *)

\* the detail of collection cid in full: every variable of the collection,
\* each with a Token for every mode
FullDetail(data, cid) ==
    /\ data.collectionId = cid
    /\ Len(data.variables) = Len(collectionVars(cid))
    /\ \A i \in DOMAIN data.variables :
          /\ data.variables[i].id = collectionVars(cid)[i]
          /\ DOMAIN data.variables[i].valuesByMode = ModeIdSet(cid)

\* the i-th posted message answers the i-th request, and no request that
\* was handled is without its message
RepliesMatchRequests ==
    /\ Len(outbox)
          = Len(requests) - Len(inbox) - (IF gpc = "loop" THEN 1 ELSE 0)
    /\ \A i \in DOMAIN outbox :
          IF requests[i] \in DOMAIN collectionMap
          THEN /\ outbox[i].type = "collection-data-loaded"
               /\ FullDetail(outbox[i].payload, requests[i])
          ELSE /\ outbox[i].type = "error"
               /\ outbox[i].payload
                     = "Error loading collection data: Collection "
                          \o requests[i] \o " not found"

---------------------------------------------------------------------------
(* Properties of the token-utils functions and of determineCategory *)

\* the call of fn has returned (or thrown)
Returned(fn) == call.fn = fn /\ ret # <<>>

IsHexDigits(s) == \A i \in 1..Len(s) : DigitValue(SubSeq(s, i, i)) \in 0..15

\* h without its leading #, if it has one
HexBody(h) == IF StartsWith(h, "#") THEN Tail(h) ELSE h

\* a valid 6-digit hex string, in any letter case, with or without leading #
ValidHex6(h) == Len(HexBody(h)) = 6 /\ IsHexDigits(HexBody(h))

\* C15 as stated: for every valid 6-digit hex string h, rgbaToHex applied to
\* the components of hexToRgba(h) returns h itself.
C15_RoundTripIdentity ==
    (Returned("hexToRgba") /\ ValidHex6(call.args[1]))
        => ret[Len(ret)] = Str(call.args[1])

\* C15: for every valid 6-digit hex string h, hexToRgba(h) returns and
\* rgbaToHex applied to its components returns the canonical form of h: a
\* leading # and the six digits of h in lower case; that is h itself exactly
\* when h is in lower case with a leading #.
C15_RoundTripCanonical ==
    (Returned("hexToRgba") /\ ValidHex6(call.args[1]))
        => /\ Len(ret) = 2
           /\ ret[2] = Str("#" \o toLowerCase(HexBody(call.args[1])))
           /\ (ret[2] = Str(call.args[1])
                  <=> /\ StartsWith(call.args[1], "#")
                      /\ toLowerCase(call.args[1]) = call.args[1])

\* a mixed-case string with a one-digit channel comes back in lower case
C15_Witness ==
    /\ call = [fn |-> "hexToRgba", args |-> <<"Ff0a3C">>]
    /\ Len(ret) = 2
    /\ ret[1] = Rgba(510, 20, 120, 1000)
    /\ ret[2] = Str("#ff0a3c")

\* a color formatColor has a reading for: # and 6 or 8 hex digits, or
\* rgb.../rgba... with at least three numbers, all of them well formed
IsHexColor(v) ==
    StartsWith(v, "#") /\ Len(Tail(v)) \in {6, 8} /\ IsHexDigits(Tail(v))

IsRgbColor(v) ==
    /\ StartsWith(v, "rgb")
    /\ Len(NumberRuns(v, "")) >= 3
    /\ \A i \in DOMAIN NumberRuns(v, "") : ParseMilli(NumberRuns(v, "")[i]) # NaN

\* C16: formatColor returns a string for every input, an alias pointer
\* unchanged, and a value that is no well-formed color unchanged.
C16_UnparsableReturnedUnchanged ==
    Returned("formatColor")
        => /\ ret[1].t = "string"
           /\ StartsWith(call.args[1], "{") => ret[1] = Str(call.args[1])
           /\ (~IsHexColor(call.args[1]) /\ ~IsRgbColor(call.args[1]))
                 => ret[1] = Str(call.args[1])

\* C17: formatUnit with unit 'none' returns the number as a string with no
\* suffix.
C17_NoneHasNoSuffix ==
    (Returned("formatUnit") /\ call.args[2] = "none" /\ call.args[1] # NaN)
        => ret[1] = Str(Dec(call.args[1]))

HasKeyword(s, keywords) == \E k \in DOMAIN keywords : Includes(s, keywords[k])

\* C18: determineCategory returns a category for every name and collection
\* name, by the first rule that applies: a primitive keyword anywhere in the
\* lower-case "<collection>/<name>" gives primitives, else a semantic
\* keyword there gives semantic, else a trimmed name ending in two or three
\* digits gives primitives, else a semantic prefix of the lower-case name
\* gives semantic, else uncategorized; "Blue/500" is primitives and
\* "text/primary" is semantic.
C18_CategoryPriority ==
    Returned("determineCategory") =>
        LET name == call.args[1]
            full == toLowerCase(call.args[2] \o "/" \o name)
            primitiveKeyword == HasKeyword(full, PRIMITIVE_KEYWORDS)
            semanticKeyword == HasKeyword(full, SEMANTIC_KEYWORDS)
            numeral == EndsInDigits(trim(name))
            semanticPrefix ==
                \E k \in DOMAIN SEMANTIC_PREFIXES :
                    StartsWith(toLowerCase(name), SEMANTIC_PREFIXES[k])
        IN  /\ Len(ret) = 1
            /\ ret[1].t = "string"
            /\ ret[1].s \in {"primitives", "semantic", "uncategorized"}
            /\ primitiveKeyword => ret[1].s = "primitives"
            /\ (~primitiveKeyword /\ semanticKeyword) => ret[1].s = "semantic"
            /\ (~primitiveKeyword /\ ~semanticKeyword /\ numeral)
                  => ret[1].s = "primitives"
            /\ (~primitiveKeyword /\ ~semanticKeyword /\ ~numeral /\ semanticPrefix)
                  => ret[1].s = "semantic"
            /\ (~primitiveKeyword /\ ~semanticKeyword /\ ~numeral /\ ~semanticPrefix)
                  => ret[1].s = "uncategorized"
            /\ (name = "Blue/500" /\ call.args[2] = "") => ret[1].s = "primitives"
            /\ (name = "text/primary" /\ call.args[2] = "") => ret[1].s = "semantic"

\* a name with a primitive keyword (base) and a semantic prefix (background)
\* is primitives
C18_Witness ==
    /\ call = [fn |-> "determineCategory", args |-> <<"background/base", "">>]
    /\ ret = <<Str("primitives")>>

---------------------------------------------------------------------------
(* Properties of the tree scanAllTokens builds *)

\* a Token: an object carrying value and type
IsToken(x) == x.t = "object" /\ {"value", "type"} \subseteq DOMAIN x.props

RECURSIVE Nodes(_, _)
\* the values of the tree x, each with the keys that lead to it from path on
Nodes(x, path) ==
    {<<path, x>>}
        \cup (IF x.t = "object"
              THEN UNION {Nodes(x.props[k], Append(path, k)) : k \in DOMAIN x.props}
              ELSE {})

\* C19: during and after the scan, every color-typed token of the tree lies
\* strictly below a color key that is the first key under its category.
C19_ColorTokensBelowColor ==
    spc # "idle" =>
        \A n \in Nodes(tokens, <<>>) :
            (IsToken(n[2]) /\ n[2].props["type"] = Str("color"))
                => /\ Len(n[1]) >= 3
                   /\ n[1][1] \in {"primitives", "semantic", "components", "uncategorized"}
                   /\ n[1][2] = "color"

\* C20: during and after the scan, no node of the tree is both a Token and
\* the parent of a Token.
C20_TokenOrTokenSet ==
    spc # "idle" =>
        \A n \in Nodes(tokens, <<>>) :
            IsToken(n[2]) => \A k \in DOMAIN n[2].props : ~IsToken(n[2].props[k])

---------------------------------------------------------------------------
(* Properties of repeated requests *)

\* C21: two requests for the same collection, on the unchanged document,
\* are answered by identical messages: the detail of the second run is
\* structurally the detail of the first.
C21_SameDetailTwice ==
    \A i \in DOMAIN outbox : \A j \in DOMAIN outbox :
        requests[i] = requests[j] => outbox[i] = outbox[j]

\* X loaded twice, A an alias of B in both modes, so that the first run
\* filled visited sets and resolved through the maps
C21_Witness ==
    /\ requests = <<"X", "X">>
    /\ Len(outbox) = 2
    /\ outbox[1].type = "collection-data-loaded"
    /\ outbox[2].type = "collection-data-loaded"
    /\ outbox[2].payload = detail
    /\ AliasesInEveryMode("A", "B")
    /\ detail.variables[1].valuesByMode["x1"].resolvedValue # Undefined

---------------------------------------------------------------------------
(* Properties of the DTCG export of nested names *)

\* a DTCG leaf: an object carrying $value
IsLeaf(x) == x.t = "object" /\ "$value" \in DOMAIN x.props

\* C22: in a DTCG export no node of the output is both a leaf and the
\* parent of a leaf.
C22_LeafOrGroup ==
    (Exported /\ options.format = "dtcg") =>
        \A n \in Nodes(output.root, <<>>) :
            IsLeaf(n[2]) => \A k \in DOMAIN n[2].props : ~IsLeaf(n[2].props[k])

---------------------------------------------------------------------------
(* Further properties of scanAllTokens and resolveVariableValue *)

\* C28: the tree scanAllTokens returns has only top-level categories among
\* primitives, semantic and uncategorized, and each of them holds a token:
\* empty categories are removed and nothing is put under components.
C28_ReturnedCategories ==
    spc = "done" =>
        /\ DOMAIN tokens.props \subseteq {"primitives", "semantic", "uncategorized"}
        /\ \A c \in DOMAIN tokens.props :
              /\ DOMAIN tokens.props[c].props # {}
              /\ \E n \in Nodes(tokens.props[c], <<c>>) : IsToken(n[2])

\* only semantic is left of the four categories: the styles are text/primary
\* and one without paint, and the variables are numbers
C28_Witness ==
    /\ spc = "done"
    /\ Len(scanned) = 2
    /\ scanned[1].name = "text/primary"
    /\ scanned[2].name = "Unused"
    /\ variableMap["A"].resolvedType = "FLOAT"
    /\ DOMAIN tokens.props = {"semantic"}

\* the names of the modes of collection c are pairwise different
UniqueModeNames(c) ==
    \A i \in DOMAIN collectionMap[c].modes : \A j \in DOMAIN collectionMap[c].modes :
        collectionMap[c].modes[i].name = collectionMap[c].modes[j].name => i = j

\* C29: when the mode names of every collection are unique, each alias hop
\* to a variable of the same collection continues in the same mode id.
C29_SameCollectionSameMode ==
    (hop # NoHop /\ hop.from[1] = hop.to[1]
        /\ \A c \in DOMAIN collectionMap : UniqueModeNames(c))
        => hop.to[2] = hop.from[2]

\* a hop inside X in its second mode, in a chain that came from Y
C29_Witness ==
    /\ hop.from = <<"X", "x2">>
    /\ hop.to = <<"X", "x2">>
    /\ top[1] = "C"
    /\ calls >= 2
    /\ \A c \in DOMAIN collectionMap : UniqueModeNames(c)


\* C23: in the token store reducer SET_COLLECTION replaces the prior
\* collection: afterwards collection and activeCollectionId are the payload's,
\* localEdits is empty, activeModeId is the single mode's id when the payload
\* has exactly one mode and 'ALL' otherwise, and allCollections, showAliases
\* and baseFontSize are as before; and in every state activeCollectionId is
\* collection.collectionId whenever collection is not null.
C23_SetCollectionReplaces ==
    /\ [](store.collection # Null
            => store.activeCollectionId = store.collection.collectionId)
    /\ [][\A payload \in CollectionPayloads :
             store' = tokenReducer(store, [type |-> "SET_COLLECTION", payload |-> payload])
                => /\ store'.collection = payload
                   /\ store'.activeCollectionId = payload.collectionId
                   /\ store'.localEdits = <<>>
                   /\ store'.activeModeId =
                         (IF Len(payload.modes) = 1 THEN payload.modes[1].modeId
                          ELSE "ALL")
                   /\ store'.allCollections = store.allCollections
                   /\ store'.showAliases = store.showAliases
                   /\ store'.baseFontSize = store.baseFontSize]_vars

\* collection Y (one mode) has replaced collection X while X had local edits,
\* a mode other than 'ALL' was chosen before, aliases are hidden and the
\* list of collections is loaded: the edits are gone, the mode is Y's only
\* mode, the list and the preference are kept
C23_Witness ==
    /\ store.collection # Null
    /\ store.collection.collectionId = "Y"
    /\ store.activeCollectionId = "Y"
    /\ store.activeModeId = "y1"
    /\ store.localEdits = <<>>
    /\ store.showAliases = FALSE
    /\ Len(store.allCollections) = 2

\* C25: localEdits is keyed by variable id: once a variable of the table has
\* both an edited value and a normalization, one localEdits entry holds both,
\* and when UPDATE_TOKEN_NORMALIZATION is dispatched for a variable the entry
\* the table reads for that variable returns the normalization just set.
C25_EditsKeyedByVariable ==
    /\ [](store.collection # Null =>
            \A i \in DOMAIN store.collection.variables :
                LET id == store.collection.variables[i].id
                    own == {k \in DOMAIN store.localEdits :
                               k \in {id, id \o ":" \o store.collection.modes[1].modeId}}
                IN  \/ \A k \in own : "value" \notin DOMAIN store.localEdits[k]
                    \/ \A k \in own : "normalization" \notin DOMAIN store.localEdits[k]
                    \/ \E k \in own : {"value", "normalization"} \subseteq DOMAIN store.localEdits[k])
    /\ [][store.collection # Null =>
            \A i \in DOMAIN store.collection.variables :
                \A normalization \in {[colorFormat |-> "hex"], [colorFormat |-> "rgb"],
                                       [unit |-> "rem"]} :
                    LET id == store.collection.variables[i].id
                    IN  store' = tokenReducer(store,
                                    [type |-> "UPDATE_TOKEN_NORMALIZATION",
                                     payload |-> [id |-> id, normalization |-> normalization]])
                            => localNorm(store', id) = normalization]_vars


---------------------------------------------------------------------------
(* The App component (ui.tsx, lines 750-870) and the plugin's handlers of  *)
(* its two requests (token-export.ts, lines 203-250, 448-479).  Here       *)
(* requests is the log of the messages the App has sent, inbox the         *)
(* messages whose handler has not returned yet, outbox the replies posted  *)
(* and not yet delivered to window.onmessage.  figma.ui.onmessage is an    *)
(* async function: a handler is suspended at each await of the host API    *)
(* (two in getLiteCollections, two and one per alias hop in                *)
(* getCollectionData) while onmessage takes the next message, so the       *)
(* handlers in flight return in any order.                                 *)

\* token-scanner.ts, lines 237-258 (the liteVariables are not read by the App)
getLiteCollections ==
    [collections |->
        [i \in 1..2 |->
            LET c == collectionMap[<<"X", "Y">>[i]] IN
            [id |-> c.id, name |-> c.name, modes |-> c.modes]]]

\* token-scanner.ts, lines 267-352: what one call of getCollectionData
\* returns for a collection of the document
CollectionDataOf(cid) ==
    [collectionId |-> cid,
     name |-> collectionMap[cid].name,
     modes |-> collectionMap[cid].modes,
     variables |->
        [i \in DOMAIN collectionVars(cid) |->
            LET v == collectionVars(cid)[i] IN
            [id |-> v, name |-> variableMap[v].name,
             type |-> TokenTypeOf(variableMap[v].resolvedType),
             valuesByMode |->
                [m \in ModeIdSet(cid) |->
                    MakeToken(v, variableMap[v].valuesByMode[m],
                              ResolveAlone(v, m, cid, {}))],
             isAlias |-> \E m \in ModeIdSet(cid) :
                            IsAlias(variableMap[v].valuesByMode[m])]]]

\* ui.tsx, lines 810-812: sendMessage
SendMessage(msg) ==
    /\ Len(requests) < MaxSent
    /\ requests' = Append(requests, msg)
    /\ inbox' = Append(inbox, msg)
    /\ UNCHANGED <<outbox, store, sync, docVars, resolverVars, scanVars, exportVars,
                   utilVars, treeVars>>

\* ui.tsx, lines 814-818; the button is there while no collection is listed
\* and is disabled while loading (lines 975-979)
handleLoadVariables ==
    /\ ui.collections = <<>>
    /\ ~ui.loading
    /\ ui' = [ui EXCEPT !.loading = TRUE, !.error = "null"]
    /\ SendMessage([type |-> "load-variables", collectionId |-> ""])

\* ui.tsx, lines 820-837; the button is there once collections are listed
\* (lines 933-941)
handleRefreshVariables ==
    /\ ui.collections # <<>>
    /\ ui' = [ui EXCEPT !.selectedCollectionId = "", !.selectedModeId = "all",
                        !.variables = <<>>, !.modes = <<>>,
                        !.loading = TRUE, !.error = "null"]
    /\ SendMessage([type |-> "load-variables", collectionId |-> ""])

\* ui.tsx, lines 839-853; the select lists the loaded collections and fires
\* when another option is chosen (lines 991-1000, 1015-1024)
handleSelectCollection(newId) ==
    /\ \E i \in DOMAIN ui.collections : ui.collections[i].id = newId
    /\ newId # ui.selectedCollectionId
    /\ ui' = [ui EXCEPT !.selectedCollectionId = newId, !.variables = <<>>,
                        !.modes = <<>>, !.selectedModeId = "all", !.loading = TRUE]
    /\ SendMessage([type |-> "get-collection-data", collectionId |-> newId])

\* token-export.ts, lines 203-250, 448-479: the handler of the i-th message
\* in flight returns and posts its reply
PluginHandler(i) ==
    /\ i \in DOMAIN inbox
    /\ LET msg == inbox[i]
           reply ==
               IF msg.type = "load-variables"
               THEN [type |-> "variables-loaded", payload |-> getLiteCollections]
               ELSE IF msg.collectionId \in DOMAIN collectionMap
               THEN LoadedReply(CollectionDataOf(msg.collectionId))
               ELSE ErrorReply(msg.collectionId)
       IN  outbox' = Append(outbox, reply)
    /\ inbox' = [k \in 1..(Len(inbox) - 1) |-> IF k < i THEN inbox[k] ELSE inbox[k + 1]]
    /\ UNCHANGED <<requests, ui, store, sync, docVars, resolverVars, scanVars,
                   exportVars, utilVars, treeVars>>

\* ui.tsx, lines 783-808: window.onmessage takes the oldest posted reply;
\* lines 861-870: the effect that follows a change of modes
WindowOnMessage ==
    /\ outbox # <<>>
    /\ LET type == Head(outbox).type
           payload == Head(outbox).payload
       IN  ui' = CASE type = "variables-loaded" ->
                        [ui EXCEPT !.collections = payload.collections,
                                   !.loading = FALSE]
                   [] type = "collection-data-loaded" ->
                        [ui EXCEPT !.modes = payload.modes,
                                   !.variables = payload.variables,
                                   !.loading = FALSE,
                                   !.selectedModeId =
                                        IF Len(payload.modes) = 1
                                        THEN payload.modes[1].modeId
                                        ELSE IF Len(payload.modes) > 1 THEN "all"
                                        ELSE @]
                   [] type = "error" ->
                        [ui EXCEPT !.error = payload, !.loading = FALSE]
                   [] OTHER -> ui
    /\ outbox' = Tail(outbox)
    /\ UNCHANGED <<requests, inbox, store, sync, docVars, resolverVars, scanVars,
                   exportVars, utilVars, treeVars>>

InitUi ==
    /\ DocInit({<< <<"Light", "Dark">>, <<"Light", "Dark">> >>}, {"COLOR"},
               {tg \in AliasGraphs(1) :
                    \A sl \in Slots : tg[sl] # "none" => sl = <<"A", 1>> /\ tg[sl] = "B"})
    /\ ResolverIdle
    /\ ScanIdle
    /\ ExportIdle
    /\ PluginIdle
    /\ UtilIdle
    /\ TreeIdle
    /\ ViewIdle

NextUi ==
    \/ handleLoadVariables
    \/ handleRefreshVariables
    \/ \E newId \in CollectionIds : handleSelectCollection(newId)
    \/ \E i \in 1..MaxSent : PluginHandler(i)
    \/ WindowOnMessage

SpecUi == InitUi /\ [][NextUi]_vars

\* C26: once the replies to every request have been delivered, the variables
\* and modes the App holds are those of the collection that is selected, in
\* whichever order the plugin's handlers returned; and no variables are held
\* while no collection is selected.
C26_ShownIsSelected ==
    /\ (inbox = <<>> /\ outbox = <<>> /\ ui.selectedCollectionId # "")
            => /\ ui.variables = CollectionDataOf(ui.selectedCollectionId).variables
               /\ ui.modes = CollectionDataOf(ui.selectedCollectionId).modes
    /\ ui.selectedCollectionId = "" => ui.variables = <<>>

\* C27: the App's loading flag is true exactly while a request it has sent
\* is not yet answered by a delivered message.
C27_LoadingWhilePending ==
    ui.loading <=> (inbox # <<>> \/ outbox # <<>>)


---------------------------------------------------------------------------
(* Token sync (VariableTable.tsx, lines 204-405) of the tree that          *)
(* scanAllTokens returned or that the UI sent with sync-to-figma.  In sync *)
(* pc is the token set being synced, todo the paths of its tokens not yet  *)
(* synced, synced the paths of the tokens syncSingleToken was called for,  *)
(* result the SyncResult, and vars the name, collection and value of each  *)
(* variable that was created or updated.  The tree keeps no insertion      *)
(* order, so the tokens of one set are taken in any order.                 *)

\* VariableTable.tsx, lines 280-282
isToken(item) == item.t = "object" /\ {"value", "type"} \subseteq DOMAIN item.props

RECURSIVE TokenPaths(_, _)
\* VariableTable.tsx, lines 255-278: the paths syncTokenSet calls
\* syncSingleToken with, below tokenSet at path
TokenPaths(tokenSet, path) ==
    IF tokenSet.t # "object" THEN {}
    ELSE UNION {IF isToken(tokenSet.props[key]) THEN {Append(path, key)}
                ELSE TokenPaths(tokenSet.props[key], Append(path, key))
                    : key \in DOMAIN tokenSet.props}

\* token-utils, lines 53-55
isTokenReference(token) ==
    /\ token.t = "object"
    /\ "value" \in DOMAIN token.props
    /\ token.props["value"].t = "string"
    /\ StartsWith(token.props["value"].s, "{")
    /\ EndsWith(token.props["value"].s, "}")

\* token.$extensions?.['com.figma.variable-id'], "" when there is none
VariableIdOf(token) ==
    LET id == Prop(Prop(token, "$extensions"), "com.figma.variable-id")
    IN  IF id.t = "string" THEN id.s ELSE ""

\* figma.variables.getVariableByIdAsync finds a variable: one of the
\* document, or one this sync has created
VariableExists(id) == id \in DOMAIN variableMap \/ id \in DOMAIN sync.vars

\* VariableTable.tsx, lines 369-393: the id of the variable to alias, ""
\* for null
resolveAliasToVariable(ref, allTokens) ==
    LET path == Split(SubSeq(ref, 2, Len(ref) - 1), ".")
        targetToken == Descend(allTokens, path)
    IN  IF VariableIdOf(targetToken) # "" /\ VariableExists(VariableIdOf(targetToken))
        THEN VariableIdOf(targetToken)
        ELSE ""

\* token-utils, lines 61-81: the value of the token the reference names,
\* Undefined for null
resolveTokenReference(ref, allTokens) ==
    LET current == Descend(allTokens, Split(SubSeq(ref, 2, Len(ref) - 1), "."))
    IN  IF current.t = "object" /\ "value" \in DOMAIN current.props
           /\ ~isTokenReference(current)
        THEN current.props["value"]
        ELSE Undefined

\* VariableTable.tsx, lines 398-405: the id of the collection of that name;
\* a created collection has its name as id
getOrCreateCollection(name) ==
    IF \E c \in DOMAIN collectionMap : collectionMap[c].name = name
    THEN CHOOSE c \in DOMAIN collectionMap : collectionMap[c].name = name
    ELSE name

RECURSIVE JoinPath(_, _)
\* path.join(sep)
JoinPath(path, sep) ==
    IF Len(path) = 0 THEN ""
    ELSE IF Len(path) = 1 THEN path[1]
    ELSE path[1] \o sep \o JoinPath(Tail(path), sep)

\* VariableTable.tsx, lines 287-364, called for the token at path below the
\* set `root` with the sync state s: the sync state and the token after the
\* call, and the message of the Error thrown ("" when it returns)
syncSingleToken(token, root, path, s, allTokens) ==
    LET collectionId == getOrCreateCollection(
                            IF root = "primitives" THEN "Primitives" ELSE "Semantic")
        variableName == JoinPath(path, "/")
        stored == VariableIdOf(token)
        name(id) == IF id \in DOMAIN s.vars THEN s.vars[id].name
                    ELSE variableMap[id].name
        coll(id) == IF id \in DOMAIN s.vars THEN s.vars[id].collectionId
                    ELSE variableMap[id].variableCollectionId
        named == {id \in DOMAIN variableMap \cup DOMAIN s.vars :
                     coll(id) = collectionId /\ name(id) = variableName}
        found == IF stored # "" /\ VariableExists(stored) THEN stored
                 ELSE IF named # {} THEN CHOOSE id \in named : TRUE
                 ELSE ""
        isNew == found = ""
        id == IF isNew THEN "V" \o Dec(s.result.created + 1) ELSE found
        counted == IF isNew THEN [s.result EXCEPT !.created = @ + 1]
                   ELSE [s.result EXCEPT !.updated = @ + 1]
        value == token.props["value"]
        alias == resolveAliasToVariable(value.s, allTokens)
        rawValue == resolveTokenReference(value.s, allTokens)
        hex == IF isTokenReference(token) THEN rawValue ELSE value
        thrown ==
            IF isTokenReference(token) /\ alias # "" THEN ""
            ELSE IF isTokenReference(token) /\ (rawValue.t # "string" \/ rawValue.s = "")
            THEN "Could not resolve alias: " \o value.s
            ELSE IF hex.t = "string" /\ ~hexToRgba(hex.s).ok
            THEN "Invalid hex color: " \o ReplaceFirst(hex.s, "#", "")
            ELSE ""
        previous == IF id \in DOMAIN s.vars THEN s.vars[id].value ELSE Undefined
        set == IF thrown # "" THEN previous
               ELSE IF isTokenReference(token) /\ alias # "" THEN VariableAlias(alias)
               ELSE IF hex.t = "string"
               THEN LET c == hexToRgba(hex.s) IN Rgba(c.r, c.g, c.b, c.a)
               ELSE previous
        extensions == IF Prop(token, "$extensions").t = "object"
                      THEN token.props["$extensions"].props ELSE <<>>
    IN  IF token.props["type"] # Str("color")
        THEN [sync |-> s, token |-> token, thrown |-> ""]
        ELSE [sync |-> [s EXCEPT
                          !.result = counted,
                          !.vars = Put(@, id, [name |-> variableName,
                                               collectionId |-> IF isNew THEN collectionId
                                                                ELSE coll(id),
                                               value |-> set])],
              token |-> IF thrown # "" THEN token
                        ELSE Obj(Put(token.props, "$extensions",
                                     Obj(Put(extensions, "com.figma.variable-id", Str(id))))),
              thrown |-> thrown]

\* VariableTable.tsx, lines 220-236: syncTokensToFigma is called with the
\* tree and turns to tokens.primitives
SyncTokensToFigma ==
    /\ spc \in {"done", "sent"}
    /\ sync.pc = "idle"
    /\ sync' = [sync EXCEPT
                    !.pc = "primitives",
                    !.todo = TokenPaths(Prop(tokens, "primitives"), <<>>),
                    !.result = [created |-> 0, updated |-> 0, errors |-> <<>>]]
    /\ UNCHANGED <<treeVars, store, ui, docVars, resolverVars, scanVars, exportVars,
                   pluginVars, utilVars>>

\* VariableTable.tsx, lines 262-272: one iteration of syncTokenSet that
\* finds a token
SyncSingleToken(path) ==
    /\ sync.pc \in {"primitives", "semantic"}
    /\ path \in sync.todo
    /\ LET full == <<sync.pc>> \o path
           after == syncSingleToken(Descend(tokens, full), sync.pc, path, sync, tokens)
       IN  /\ sync' = [after.sync EXCEPT
                         !.todo = @ \ {path},
                         !.synced = @ \cup {full},
                         !.result.errors =
                            IF after.thrown = "" THEN @
                            ELSE Append(@, "Failed to sync " \o JoinPath(path, ".")
                                              \o ": " \o after.thrown)]
           /\ tokens' = SetPath(tokens, full, after.token)
    /\ UNCHANGED <<spc, scanned, store, ui, docVars, resolverVars, scanVars, exportVars,
                   pluginVars, utilVars>>

\* VariableTable.tsx, lines 236-249: a token set is through; the semantic
\* tokens follow the primitives, and after them syncTokensToFigma returns
SyncTokenSetDone ==
    /\ sync.pc \in {"primitives", "semantic"}
    /\ sync.todo = {}
    /\ sync' = IF sync.pc = "primitives"
               THEN [sync EXCEPT !.pc = "semantic",
                                 !.todo = TokenPaths(Prop(tokens, "semantic"), <<>>)]
               ELSE [sync EXCEPT !.pc = "done"]
    /\ UNCHANGED <<treeVars, store, ui, docVars, resolverVars, scanVars, exportVars,
                   pluginVars, utilVars>>

\* the trees the UI sends with sync-to-figma besides a scanned one: a
\* semantic token that aliases a primitive whose value is a hex colour, an
\* rgba() colour as rgbaToHex writes it, or that is not there; a token that
\* carries the id of variable A, and a spacing token
SentTrees ==
    LET Tok(value, type) == Obj([k \in {"value", "type"} |->
                                    IF k = "value" THEN value ELSE Str(type)])
        Tree(primitive, semantic) ==
            Obj([c \in {"primitives", "semantic"} |->
                    IF c = "primitives"
                    THEN Obj([k \in {"color", "spacing"} |->
                                IF k = "color" THEN Obj([n \in {"blue"} |-> primitive])
                                ELSE Obj([n \in {"sm"} |-> Tok(Num(8), "spacing")])])
                    ELSE Obj([k \in {"color"} |-> Obj([n \in {"link"} |-> semantic])])])
        Known(token) == Obj(Put(token.props, "$extensions",
                                Obj([k \in {"com.figma.variable-id"} |-> Str("A")])))
    IN  {Tree(p, t) :
            p \in {Tok(Str("#0000ff"), "color"), Tok(Str("rgba(0, 0, 255, 0.500)"), "color"),
                   Known(Tok(Str("#0000ff"), "color"))},
            t \in {Tok(Str("{primitives.color.blue}"), "color"),
                   Tok(Str("{primitives.color.none}"), "color"),
                   Tok(Str("#ffffff"), "color")}}

InitSync ==
    /\ DocInit({<< <<"Light", "Dark">>, <<"Light", "Dark">> >>}, {"COLOR"},
               AliasGraphs(0))
    /\ ResolverIdle
    /\ ScanIdle
    /\ ExportIdle
    /\ PluginIdle
    /\ UtilIdle
    /\ ViewIdle
    /\ \/ TreeIdle
       \/ /\ spc = "sent"
          /\ scanned = <<>>
          /\ tokens \in SentTrees

NextSync ==
    \/ NextScan
    \/ SyncTokensToFigma
    \/ \E path \in sync.todo : SyncSingleToken(path)
    \/ SyncTokenSetDone

SpecSync == InitSync /\ [][NextSync]_vars

\* C24: the primitives are synced before the semantic tokens, so that once a
\* semantic color token that aliases a color token under primitives has been
\* synced, the primitive carries its variable id and the value of the
\* semantic token's variable is an alias of that variable.
C24_AliasOfSyncedPrimitive ==
    sync.pc # "idle" =>
        /\ (\E p \in sync.synced : p[1] = "semantic")
                => TokenPaths(Prop(tokens, "primitives"), <<"primitives">>) \subseteq sync.synced
        /\ \A p \in sync.synced :
              LET token == Descend(tokens, p)
                  parts == Split(SubSeq(token.props["value"].s, 2,
                                        Len(token.props["value"].s) - 1), ".")
                  target == Descend(tokens, parts)
              IN  (/\ p[1] = "semantic"
                   /\ token.props["type"] = Str("color")
                   /\ isTokenReference(token)
                   /\ parts[1] = "primitives"
                   /\ isToken(target)
                   /\ target.props["type"] = Str("color"))
                    => /\ VariableIdOf(target) # ""
                       /\ VariableIdOf(token) # ""
                       /\ VariableIdOf(token) \in DOMAIN sync.vars
                       /\ sync.vars[VariableIdOf(token)].value
                            = VariableAlias(VariableIdOf(target))

\* C30: when the tree scanAllTokens returned has been synced, result.errors
\* is empty and created and updated together count the color tokens that
\* were synced.
C30_ScannedTreeSyncs ==
    (spc = "done" /\ sync.pc = "done") =>
        /\ sync.result.errors = <<>>
        /\ sync.result.created + sync.result.updated
              = Cardinality({p \in sync.synced :
                                Descend(tokens, p).props["type"] = Str("color")})

=============================================================================
